---- MODULE Spec2Model ----
(***************************************************************************)
(* Line Integral Convolution engine of vegtamr (lic/_core.py,              *)
(* lic/_serial.py, lic/_parallel.py, lic/_api.py).                         *)
(*                                                                         *)
(* Floating-point values are modelled as extended rationals: a value is a  *)
(* triple <<kind, num, den>> with kind 0 a finite rational num/den in      *)
(* lowest terms (den > 0), kind 1 +inf, kind 2 -inf and kind 3 NaN.  The   *)
(* arithmetic follows IEEE-754 for the special values (NaN propagates,     *)
(* inf * 0 = NaN, x / inf = 0, comparisons with NaN are false).            *)
(***************************************************************************)
EXTENDS Integers, Sequences, FiniteSets, TLC

VARIABLES
  \* inputs of one LIC pass
  vfield, sfield_in, num_rows, num_cols, streamlength, use_periodic_BCs,
  \* advect_streamline: one streamline being integrated
  start_row, start_col, dir_sgn, sl,
  \* one pass: _api.compute_lic -> _serial.compute_lic or _parallel.compute_lic
  use_parallel, cpu_count, lic_pc, lic_err, sfield_out, row_index, col_index,
  shm_vfield, shm_sfield, chunks, chunk_out, results, res_pos, writes,
  \* one call of the public API (_api.py): its arguments and its locals
  api, api_st,
  \* the process-wide numpy.random generator and two API calls that use it
  rng, seed_run,
  \* the objects of a call of jormi.utils.dict_utils.merge_dicts
  heap, md,
  \* jormi.ww_io.json_files: the file at one path and the calls made on it
  json_file, json_op,
  \* jormi.ww_io.csv_files: the file at one path and the calls made on it
  csv_file, csv_op,
  \* bifrost.HDF5DataManager: its global axes and datasets, and the calls made
  h5, h5_op

inputVars  == <<vfield, sfield_in, num_rows, num_cols, streamlength, use_periodic_BCs>>
streamVars == <<start_row, start_col, dir_sgn, sl>>
passVars   == <<use_parallel, cpu_count, lic_pc, lic_err, sfield_out, row_index, col_index,
               shm_vfield, shm_sfield, chunks, chunk_out, results, res_pos, writes>>
apiVars    == <<api, api_st>>
rngVars    == <<rng, seed_run>>
dictVars   == <<heap, md>>
ioVars     == <<json_file, json_op, csv_file, csv_op>>
h5Vars     == <<h5, h5_op>>
libVars    == <<rngVars, dictVars, ioVars, h5Vars>>
vars       == <<inputVars, streamVars, passVars, apiVars, libVars>>

(***************************************************************************)
(* Bounds of the model.                                                    *)
(***************************************************************************)
MaxRows == 2
MaxCols == 2
MaxStreamlength == 3
MaxCpus == 2
MaxPasses == 2
MaxCycles == 2
MaxConstRows == 3
MaxConstCols == 3
MaxConstStreamlength == 4
RngStates == 7
MaxSeedCells == 2
MaxOtherDraws == 2
MaxJsonCalls == 3
MaxCsvCalls == 3
MaxCsvColumnLen == 2

(***************************************************************************)
(* Extended rational arithmetic (float64 values of numpy).                 *)
(***************************************************************************)
Abs(n) == IF n < 0 THEN -n ELSE n

RECURSIVE GCD(_, _)
GCD(a, b) == IF b = 0 THEN a ELSE GCD(b, a % b)

Fin(n, d) ==
  LET s == IF d < 0 THEN -1 ELSE 1
      g == GCD(Abs(n), Abs(d))
  IN  <<0, (s * n) \div g, (s * d) \div g>>

IntVal(i) == <<0, i, 1>>
Zero == <<0, 0, 1>>
PInf == <<1, 0, 1>>
NInf == <<2, 0, 1>>
NaN  == <<3, 0, 1>>

IsFin(x)  == x[1] = 0
IsNaN(x)  == x[1] = 3
IsInf(x)  == x[1] \in {1, 2}
\* sign of a value: -1, 0, 1 (0 for NaN, which compares false with everything)
Sgn(x) ==
  CASE x[1] = 0 -> (IF x[2] > 0 THEN 1 ELSE IF x[2] < 0 THEN -1 ELSE 0)
    [] x[1] = 1 -> 1
    [] x[1] = 2 -> -1
    [] OTHER    -> 0
IsZero(x) == IsFin(x) /\ x[2] = 0
SignedInf(s) == IF s > 0 THEN PInf ELSE NInf

Neg(x) ==
  CASE x[1] = 0 -> <<0, -x[2], x[3]>>
    [] x[1] = 1 -> NInf
    [] x[1] = 2 -> PInf
    [] OTHER    -> NaN

Add(x, y) ==
  IF IsNaN(x) \/ IsNaN(y) THEN NaN
  ELSE IF IsInf(x) /\ IsInf(y) THEN (IF x = y THEN x ELSE NaN)
  ELSE IF IsInf(x) THEN x
  ELSE IF IsInf(y) THEN y
  ELSE Fin(x[2] * y[3] + y[2] * x[3], x[3] * y[3])

Sub(x, y) == Add(x, Neg(y))

Mul(x, y) ==
  IF IsNaN(x) \/ IsNaN(y) THEN NaN
  ELSE IF IsInf(x) \/ IsInf(y)
       THEN (IF IsZero(x) \/ IsZero(y) THEN NaN ELSE SignedInf(Sgn(x) * Sgn(y)))
  ELSE Fin(x[2] * y[2], x[3] * y[3])

\* numpy float division: x / 0 gives NaN (0 / 0) or a signed infinity
Div(x, y) ==
  IF IsNaN(x) \/ IsNaN(y) THEN NaN
  ELSE IF IsInf(x) THEN (IF IsInf(y) THEN NaN
                         ELSE SignedInf(Sgn(x) * (IF Sgn(y) < 0 THEN -1 ELSE 1)))
  ELSE IF IsInf(y) THEN Zero
  ELSE IF IsZero(y) THEN (IF IsZero(x) THEN NaN ELSE SignedInf(Sgn(x)))
  ELSE Fin(x[2] * y[3], x[3] * y[2])

\* x < y; false when either side is NaN
Less(x, y) ==
  IF IsNaN(x) \/ IsNaN(y) THEN FALSE
  ELSE IF x = y THEN FALSE
  ELSE IF x = NInf \/ y = PInf THEN TRUE
  ELSE IF x = PInf \/ y = NInf THEN FALSE
  ELSE x[2] * y[3] < y[2] * x[3]

LessEq(x, y) == (~IsNaN(x) /\ ~IsNaN(y)) /\ (x = y \/ Less(x, y))

\* Python's min(a, b): b when b < a, else a
Min(a, b) == IF Less(b, a) THEN b ELSE a

\* numpy.floor / numpy.ceil of a finite value, as an integer
FloorInt(x) == x[2] \div x[3]
CeilInt(x)  == -((-x[2]) \div x[3])

\* x % m for an integer m > 0 (result in [0, m)); NaN for a non-finite x
Mod(x, m) ==
  IF IsFin(x) THEN Fin(x[2] % (m * x[3]), x[3]) ELSE NaN

(***************************************************************************)
(* lic/_core.py                                                            *)
(***************************************************************************)
\* 1000 * 0.5 * (1 + cos(pi * step / streamlength)) rounded to an integer:
\* row L of the table holds the values for step = 0 .. L-1.
TaperTable == <<
  <<1000>>,
  <<1000, 500>>,
  <<1000, 750, 250>>,
  <<1000, 854, 500, 146>>,
  <<1000, 905, 655, 345, 95>>,
  <<1000, 933, 750, 500, 250, 67>>,
  <<1000, 950, 812, 611, 389, 188, 50>>,
  <<1000, 962, 854, 691, 500, 309, 146, 38>> >>

\* variant of taper_pixel_contribution without the factor 0.5: 1 + cos(...)
taper_pixel_contribution_unhalved(L, step_index) ==
  Fin(2 * TaperTable[L][step_index + 1], TaperTable[L][1])

taper_pixel_contribution(L, step_index) ==
  Fin(TaperTable[L][step_index + 1], TaperTable[L][1])

\* numpy indexing of an axis of length n with the integer i: a negative index
\* counts from the end, an index outside -n .. n-1 is an IndexError.
IndexOk(i, n) == -n <= i /\ i < n
PyIndex(i, n) == IF i < 0 THEN i + n ELSE i

\* vfield[comp, row, col]
VAt(vf, nr, nc, comp, row, col) == vf[comp][PyIndex(row, nr)][PyIndex(col, nc)]

\* one component of the interpolated vector: the four neighbours weighted
bilinear_comp(vf, nr, nc, k, row_low, row_high, col_low, col_high, weight_row_low, weight_row_high, weight_col_low, weight_col_high) ==
  Add(Add(Add(
    Mul(Mul(VAt(vf, nr, nc, k, row_low,  col_low),  weight_row_low),  weight_col_low),
    Mul(Mul(VAt(vf, nr, nc, k, row_low,  col_high), weight_row_low),  weight_col_high)),
    Mul(Mul(VAt(vf, nr, nc, k, row_high, col_low),  weight_row_high), weight_col_low)),
    Mul(Mul(VAt(vf, nr, nc, k, row_high, col_high), weight_row_high), weight_col_high))

bilinear_at(vf, nr, nc, row, col, row_low, row_high, col_low, col_high) ==
  IF /\ IndexOk(row_low, nr) /\ IndexOk(row_high, nr)
     /\ IndexOk(col_low, nc) /\ IndexOk(col_high, nc)
  THEN [ ok  |-> TRUE,
         idx |-> <<row_low, row_high, col_low, col_high>>,
         comp_col |-> bilinear_comp(vf, nr, nc, 0, row_low, row_high, col_low, col_high,
                        Sub(IntVal(1), Sub(row, IntVal(row_low))), Sub(row, IntVal(row_low)),
                        Sub(IntVal(1), Sub(col, IntVal(col_low))), Sub(col, IntVal(col_low))),
         comp_row |-> bilinear_comp(vf, nr, nc, 1, row_low, row_high, col_low, col_high,
                        Sub(IntVal(1), Sub(row, IntVal(row_low))), Sub(row, IntVal(row_low)),
                        Sub(IntVal(1), Sub(col, IntVal(col_low))), Sub(col, IntVal(col_low))) ]
  ELSE [ ok  |-> FALSE,
         idx |-> <<row_low, row_high, col_low, col_high>>,
         comp_col |-> NaN, comp_row |-> NaN ]

\* variant of clamp_high without the clamp: low + 1 even on the last row or column
clamp_high_unclamped(low, n) == low + 1

\* min(low + 1, n - 1)
clamp_high(low, n) == IF low + 1 < n - 1 THEN low + 1 ELSE n - 1

interpolate_bilinear(vf, nr, nc, row, col) ==
  bilinear_at(vf, nr, nc, row, col,
              FloorInt(row), clamp_high(FloorInt(row), nr),
              FloorInt(col), clamp_high(FloorInt(col), nc))

\* the local variables of advect_streamline before the first iteration
StreamStart(r, c, L) ==
  [ pc           |-> IF L = 0 THEN "returned" ELSE "loop",
    step         |-> 0,
    row_float    |-> IntVal(r),
    col_float    |-> IntVal(c),
    weighted_sum |-> Zero,
    total_weight |-> Zero,
    exit         |-> IF L = 0 THEN "exhausted" ELSE "none",
    vidx         |-> <<>>,
    sidx         |-> <<>> ]

\* time until the streamline leaves the current cell along one axis
delta_time(pos, comp) ==
  IF Less(Zero, comp)
  THEN Div(Sub(IntVal(FloorInt(pos) + 1), pos), comp)
  ELSE IF Less(comp, Zero)
  THEN Div(Sub(IntVal(CeilInt(pos) - 1), pos), comp)
  ELSE PInf

\* variant of wrap_periodic that leaves the coordinate where the advance put it
wrap_periodic_no_wrap(pos, n) == pos

\* the boundary policy applied to one coordinate with periodic boundaries
wrap_periodic(pos, n) == Mod(Add(pos, IntVal(n)), n)

\* variant of in_domain that tests the lower edges only
in_domain_lower_only(row, col, nr, nc) ==
  LessEq(Zero, row) /\ LessEq(Zero, col)

in_domain(row, col, nr, nc) ==
  /\ LessEq(Zero, row) /\ Less(row, IntVal(nr))
  /\ LessEq(Zero, col) /\ Less(col, IntVal(nc))

\* variant of step_accumulate that adds the sampled pixel without its weight
step_accumulate_unweighted(sf, nr, nc, L, s, ib, row_int, col_int, row_new, col_new, w) ==
  IF ~(IndexOk(row_int, nr) /\ IndexOk(col_int, nc))
  THEN [s EXCEPT !.pc = "raised", !.exit = "IndexError", !.vidx = ib.idx,
                 !.sidx = <<row_int, col_int>>,
                 !.row_float = row_new, !.col_float = col_new]
  ELSE [ pc           |-> IF s.step + 1 = L THEN "returned" ELSE "loop",
         step         |-> s.step + 1,
         row_float    |-> row_new,
         col_float    |-> col_new,
         weighted_sum |-> Add(s.weighted_sum, sf[PyIndex(row_int, nr)][PyIndex(col_int, nc)]),
         total_weight |-> Add(s.total_weight, w),
         exit         |-> IF s.step + 1 = L THEN "exhausted" ELSE "none",
         vidx         |-> ib.idx,
         sidx         |-> <<row_int, col_int>> ]

\* the end of an iteration: boundary policy passed, the contribution is added
step_accumulate(sf, nr, nc, L, s, ib, row_int, col_int, row_new, col_new, w) ==
  IF ~(IndexOk(row_int, nr) /\ IndexOk(col_int, nc))
  THEN [s EXCEPT !.pc = "raised", !.exit = "IndexError", !.vidx = ib.idx,
                 !.sidx = <<row_int, col_int>>,
                 !.row_float = row_new, !.col_float = col_new]
  ELSE [ pc           |-> IF s.step + 1 = L THEN "returned" ELSE "loop",
         step         |-> s.step + 1,
         row_float    |-> row_new,
         col_float    |-> col_new,
         weighted_sum |-> Add(s.weighted_sum,
                              Mul(w, sf[PyIndex(row_int, nr)][PyIndex(col_int, nc)])),
         total_weight |-> Add(s.total_weight, w),
         exit         |-> IF s.step + 1 = L THEN "exhausted" ELSE "none",
         vidx         |-> ib.idx,
         sidx         |-> <<row_int, col_int>> ]

\* variant of step_boundary that reads the scalar field at the cell reached by
\* the advance instead of the cell occupied before it
step_boundary_reads_new_cell(sf, nr, nc, L, per, s, ib, row_adv, col_adv) ==
  IF per
  THEN step_accumulate(sf, nr, nc, L, s, ib,
                       FloorInt(wrap_periodic(row_adv, nr)), FloorInt(wrap_periodic(col_adv, nc)),
                       wrap_periodic(row_adv, nr), wrap_periodic(col_adv, nc),
                       taper_pixel_contribution(L, s.step))
  ELSE IF ~in_domain(row_adv, col_adv, nr, nc)
  THEN [s EXCEPT !.pc = "returned", !.exit = "left", !.vidx = ib.idx, !.sidx = <<>>,
                 !.row_float = row_adv, !.col_float = col_adv]
  ELSE step_accumulate(sf, nr, nc, L, s, ib, FloorInt(row_adv), FloorInt(col_adv),
                       row_adv, col_adv, taper_pixel_contribution(L, s.step))

step_boundary(sf, nr, nc, L, per, s, ib, row_adv, col_adv) ==
  IF per
  THEN step_accumulate(sf, nr, nc, L, s, ib, FloorInt(s.row_float), FloorInt(s.col_float),
                       wrap_periodic(row_adv, nr), wrap_periodic(col_adv, nc),
                       taper_pixel_contribution(L, s.step))
  ELSE IF ~in_domain(row_adv, col_adv, nr, nc)
  THEN [s EXCEPT !.pc = "returned", !.exit = "left", !.vidx = ib.idx, !.sidx = <<>>,
                 !.row_float = row_adv, !.col_float = col_adv]
  ELSE step_accumulate(sf, nr, nc, L, s, ib, FloorInt(s.row_float), FloorInt(s.col_float),
                       row_adv, col_adv, taper_pixel_contribution(L, s.step))

step_advance(sf, nr, nc, L, per, s, ib, vfield_comp_col, vfield_comp_row, time_step) ==
  step_boundary(sf, nr, nc, L, per, s, ib,
                Add(s.row_float, Mul(vfield_comp_row, time_step)),
                Add(s.col_float, Mul(vfield_comp_col, time_step)))

\* variant of step_velocity without the zero-magnitude break of line 88
step_velocity_no_zero_break(sf, nr, nc, L, per, s, ib, vfield_comp_col, vfield_comp_row) ==
  step_advance(sf, nr, nc, L, per, s, ib, vfield_comp_col, vfield_comp_row,
               Min(delta_time(s.col_float, vfield_comp_col),
                   delta_time(s.row_float, vfield_comp_row)))

step_velocity(sf, nr, nc, L, per, s, ib, vfield_comp_col, vfield_comp_row) ==
  IF IsZero(vfield_comp_row) /\ IsZero(vfield_comp_col)
  THEN [s EXCEPT !.pc = "returned", !.exit = "zero", !.vidx = ib.idx, !.sidx = <<>>]
  ELSE step_advance(sf, nr, nc, L, per, s, ib, vfield_comp_col, vfield_comp_row,
                    Min(delta_time(s.col_float, vfield_comp_col),
                        delta_time(s.row_float, vfield_comp_row)))

step_sampled(sf, nr, nc, L, per, dir, s, ib) ==
  IF ~ib.ok
  THEN [s EXCEPT !.pc = "raised", !.exit = "IndexError", !.vidx = ib.idx, !.sidx = <<>>]
  ELSE step_velocity(sf, nr, nc, L, per, s, ib,
                     Mul(ib.comp_col, IntVal(dir)), Mul(ib.comp_row, IntVal(dir)))

\* one iteration of the loop of advect_streamline
advect_step(vf, sf, nr, nc, L, per, dir, s) ==
  IF ~IsFin(s.row_float) \/ ~IsFin(s.col_float)
  THEN \* int(numpy.floor(nan)) raises ValueError, int(numpy.floor(inf)) OverflowError
       [s EXCEPT !.pc = "raised",
                 !.exit = IF IsNaN(s.row_float) \/ (IsFin(s.row_float) /\ IsNaN(s.col_float))
                          THEN "ValueError" ELSE "OverflowError",
                 !.vidx = <<>>, !.sidx = <<>>]
  ELSE step_sampled(sf, nr, nc, L, per, dir, s,
                    interpolate_bilinear(vf, nr, nc, s.row_float, s.col_float))

advect_run(vf, sf, nr, nc, L, per, dir, s0) ==
  LET run[k \in 0 .. L] ==
        IF k = 0 THEN s0
        ELSE LET prev == run[k - 1]
             IN  IF prev.pc # "loop" THEN prev
                 ELSE advect_step(vf, sf, nr, nc, L, per, dir, prev)
  IN  run[L]

\* advect_streamline(...): the final locals; the call returns
\* (weighted_sum, total_weight) when pc = "returned" and raises otherwise
advect_streamline(vf, sf, nr, nc, start_r, start_c, dir, L, per) ==
  advect_run(vf, sf, nr, nc, L, per, dir, StreamStart(start_r, start_c, L))

(***************************************************************************)
(* Inputs: grids of at most MaxRows x MaxCols cells.  Every cell of the    *)
(* vector field holds one of the vectors of VecSet, written                *)
(* <<x component (vfield[0]), y component (vfield[1])>>.                   *)
(***************************************************************************)
VecSet == { <<Zero, Zero>>,
            <<IntVal(1), Zero>>,
            <<IntVal(-1), IntVal(2)>>,
            <<NaN, IntVal(1)>>,
            <<PInf, IntVal(-1)>> }

Rows(nr) == 0 .. nr - 1
Cols(nc) == 0 .. nc - 1

\* the array of shape (2, nr, nc) whose cell (r, c) holds the vector cells[r][c]
VFieldOf(cells, nr, nc) ==
  [k \in 0 .. 1 |-> [r \in Rows(nr) |-> [c \in Cols(nc) |-> cells[r][c][k + 1]]]]

VFields(nr, nc, vecs) ==
  { VFieldOf(cells, nr, nc) : cells \in [Rows(nr) -> [Cols(nc) -> vecs]] }

\* scalar textures: one with a different value in every cell, one uniform
SFields(nr, nc) ==
  { [r \in Rows(nr) |-> [c \in Cols(nc) |-> IntVal(1 + r * nc + c)]],
    [r \in Rows(nr) |-> [c \in Cols(nc) |-> IntVal(1)]] }

InputInit(vecs) ==
  /\ num_rows \in 1 .. MaxRows
  /\ num_cols \in 1 .. MaxCols
  /\ vfield \in VFields(num_rows, num_cols, vecs)
  /\ sfield_in \in SFields(num_rows, num_cols)
  /\ streamlength \in 0 .. MaxStreamlength
  /\ use_periodic_BCs \in BOOLEAN

(***************************************************************************)
(* StreamSpec: one call of advect_streamline, one loop iteration per step. *)
(***************************************************************************)
\* the pass variables while no pass runs
PassIdle ==
  /\ use_parallel = FALSE /\ cpu_count = 1
  /\ lic_pc = "idle" /\ lic_err = "none"
  /\ sfield_out = <<>> /\ row_index = 0 /\ col_index = 0
  /\ shm_vfield = [state |-> "none", arr |-> <<>>]
  /\ shm_sfield = [state |-> "none", arr |-> <<>>]
  /\ chunks = <<>> /\ chunk_out = <<>> /\ results = <<>> /\ res_pos = 0 /\ writes = <<>>

\* the API variables while no API call is modelled
ApiIdle == api = <<>> /\ api_st = <<>>

\* the variables of the generator and of merge_dicts while neither is modelled
IoIdle == json_file = <<>> /\ json_op = <<>> /\ csv_file = <<>> /\ csv_op = <<>>
H5Idle == h5 = <<>> /\ h5_op = <<>>
LibIdle ==
  /\ rng = 0 /\ seed_run = <<>> /\ heap = <<>> /\ md = <<>>
  /\ IoIdle /\ H5Idle

StreamInit ==
  /\ InputInit(VecSet)
  /\ PassIdle
  /\ ApiIdle
  /\ LibIdle
  /\ start_row \in Rows(num_rows)
  /\ start_col \in Cols(num_cols)
  /\ dir_sgn \in {1, -1}
  /\ sl = StreamStart(start_row, start_col, streamlength)

AdvectIteration ==
  /\ sl.pc = "loop"
  /\ sl' = advect_step(vfield, sfield_in, num_rows, num_cols, streamlength,
                       use_periodic_BCs, dir_sgn, sl)
  /\ UNCHANGED <<libVars, inputVars, start_row, start_col, dir_sgn, passVars, apiVars>>

StreamNext == AdvectIteration

StreamSpec == StreamInit /\ [][StreamNext]_vars

(***************************************************************************)
(* lic/_serial.py and lic/_parallel.py: one pass over the whole field.     *)
(* The output buffer sfield_out and the row buffers of the workers are     *)
(* float32 arrays: a stored value is rounded to a multiple of              *)
(* 1 / Float32Den.                                                         *)
(***************************************************************************)
Float32Den == 4096

ToFloat32(x) ==
  IF IsFin(x)
  THEN Fin((2 * x[2] * Float32Den + x[3]) \div (2 * x[3]), Float32Den)
  ELSE x

\* numpy.zeros((nr, nc), dtype=numpy.float32), _api.py line 50
ZeroField(nr, nc) == [r \in Rows(nr) |-> [c \in Cols(nc) |-> Zero]]

\* variant of serial_store that divides without testing total_weight > 0.0
serial_store_unguarded(fwd, bwd) ==
  IF fwd.pc = "raised" THEN [raised |-> TRUE, err |-> fwd.exit, value |-> Zero]
  ELSE IF bwd.pc = "raised" THEN [raised |-> TRUE, err |-> bwd.exit, value |-> Zero]
  ELSE [ raised |-> FALSE, err |-> "none",
         value  |-> ToFloat32(Div(Add(fwd.weighted_sum, bwd.weighted_sum),
                                  Add(fwd.total_weight, bwd.total_weight))) ]

\* _serial.compute_lic lines 37-41: the value stored in sfield_out[r, c] from
\* the results of the two streamlines, or the exception one of them raised
serial_store(fwd, bwd) ==
  IF fwd.pc = "raised" THEN [raised |-> TRUE, err |-> fwd.exit, value |-> Zero]
  ELSE IF bwd.pc = "raised" THEN [raised |-> TRUE, err |-> bwd.exit, value |-> Zero]
  ELSE [ raised |-> FALSE, err |-> "none",
         value  |-> IF Less(Zero, Add(fwd.total_weight, bwd.total_weight))
                    THEN ToFloat32(Div(Add(fwd.weighted_sum, bwd.weighted_sum),
                                       Add(fwd.total_weight, bwd.total_weight)))
                    ELSE Zero ]

\* the body of the inner loop of _serial.compute_lic for pixel (r, c)
serial_pixel(vf, sf, nr, nc, L, per, r, c) ==
  serial_store(advect_streamline(vf, sf, nr, nc, r, c, 1, L, per),
               advect_streamline(vf, sf, nr, nc, r, c, -1, L, per))

\* variant of row_store that normalises by the forward weight only
row_store_forward_weight(fwd, bwd) ==
  IF fwd.pc = "raised" THEN [raised |-> TRUE, err |-> fwd.exit, value |-> Zero]
  ELSE IF bwd.pc = "raised" THEN [raised |-> TRUE, err |-> bwd.exit, value |-> Zero]
  ELSE [ raised |-> FALSE, err |-> "none",
         value  |-> ToFloat32(IF Less(Zero, Add(fwd.total_weight, bwd.total_weight))
                              THEN Div(Add(fwd.weighted_sum, bwd.weighted_sum),
                                       fwd.total_weight)
                              ELSE Zero) ]

\* _parallel._process_row lines 36-38: the value stored in row_results[c]
row_store(fwd, bwd) ==
  IF fwd.pc = "raised" THEN [raised |-> TRUE, err |-> fwd.exit, value |-> Zero]
  ELSE IF bwd.pc = "raised" THEN [raised |-> TRUE, err |-> bwd.exit, value |-> Zero]
  ELSE [ raised |-> FALSE, err |-> "none",
         value  |-> ToFloat32(IF Less(Zero, Add(fwd.total_weight, bwd.total_weight))
                              THEN Div(Add(fwd.weighted_sum, bwd.weighted_sum),
                                       Add(fwd.total_weight, bwd.total_weight))
                              ELSE Zero) ]

\* the body of the column loop of _parallel._process_row
row_pixel(vf, sf, nr, nc, L, per, r, c) ==
  row_store(advect_streamline(vf, sf, nr, nc, r, c, 1, L, per),
            advect_streamline(vf, sf, nr, nc, r, c, -1, L, per))

\* the column loop of _process_row from column c on, row_results so far in acc
RECURSIVE process_row_from(_, _, _, _, _, _, _, _, _)
row_next(vf, sf, nr, nc, L, per, r, c, acc, px) ==
  IF px.raised
  THEN [raised |-> TRUE, err |-> px.err, row_index |-> r, row_results |-> acc]
  ELSE process_row_from(vf, sf, nr, nc, L, per, r, c + 1, [acc EXCEPT ![c] = px.value])

process_row_from(vf, sf, nr, nc, L, per, r, c, acc) ==
  IF c = nc THEN [raised |-> FALSE, err |-> "none", row_index |-> r, row_results |-> acc]
  ELSE row_next(vf, sf, nr, nc, L, per, r, c, acc, row_pixel(vf, sf, nr, nc, L, per, r, c))

\* variant of process_row whose result is tagged with row 0 whatever its row
process_row_tag_zero(r, shm_v, shm_s, nr, nc, L, per) ==
  [process_row_from(shm_v, shm_s, nr, nc, L, per, r, 0, [c \in Cols(nc) |-> Zero])
     EXCEPT !.row_index = 0]

\* _process_row(row_index, ...): the task of one row, reading the shared copies
process_row(r, shm_v, shm_s, nr, nc, L, per) ==
  process_row_from(shm_v, shm_s, nr, nc, L, per, r, 0, [c \in Cols(nc) |-> Zero])

\* chunk_size = max(1, num_rows // (cpu_count() * 8)), and the rows of chunk k
ChunkFactor == 8
chunk_size(nr, cpus) ==
  IF nr \div (cpus * ChunkFactor) > 1 THEN nr \div (cpus * ChunkFactor) ELSE 1
NumChunks(nr, cpus) == (nr + chunk_size(nr, cpus) - 1) \div chunk_size(nr, cpus)
ChunkRows(k, nr, cpus) ==
  { r \in Rows(nr) : r \div chunk_size(nr, cpus) = k }

\* a worker maps _process_row over the rows of a chunk in order, from row r on;
\* the first task that raises ends the chunk
RECURSIVE run_chunk_from(_, _, _, _, _, _, _, _, _)
chunk_next(r, last, shm_v, shm_s, nr, nc, L, per, acc, t) ==
  IF t.raised THEN [raised |-> TRUE, err |-> t.err, out |-> acc]
  ELSE run_chunk_from(r + 1, last, shm_v, shm_s, nr, nc, L, per,
                      Append(acc, <<t.row_index, t.row_results>>))

run_chunk_from(r, last, shm_v, shm_s, nr, nc, L, per, acc) ==
  IF r > last THEN [raised |-> FALSE, err |-> "none", out |-> acc]
  ELSE chunk_next(r, last, shm_v, shm_s, nr, nc, L, per, acc,
                  process_row(r, shm_v, shm_s, nr, nc, L, per))

run_chunk(k, shm_v, shm_s, nr, nc, L, per, cpus) ==
  LET rows == ChunkRows(k, nr, cpus)
      first == CHOOSE r \in rows : \A q \in rows : r <= q
      last  == CHOOSE r \in rows : \A q \in rows : q <= r
  IN  run_chunk_from(first, last, shm_v, shm_s, nr, nc, L, per, <<>>)

(***************************************************************************)
(* Spec: one call of _api.compute_lic with valid inputs, dispatched to the *)
(* serial or to the parallel strategy.  The initial state is the state     *)
(* after _api.py lines 47-59: sfield_out is a zero float32 array.          *)
(***************************************************************************)
StreamIdle ==
  /\ start_row = 0 /\ start_col = 0 /\ dir_sgn = 1
  /\ sl = StreamStart(0, 0, 0)

NoShm == [state |-> "none", arr |-> <<>>]

\* the vectors of the fields a whole pass is run on
PassVecSet == { <<Zero, Zero>>,
                <<IntVal(-1), IntVal(2)>>,
                <<NaN, IntVal(1)>> }

PassInit ==
  /\ InputInit(PassVecSet)
  /\ StreamIdle
  /\ ApiIdle
  /\ LibIdle
  /\ use_parallel \in BOOLEAN
  /\ cpu_count \in (IF use_parallel THEN 1 .. MaxCpus ELSE {1})
  /\ lic_pc = IF use_parallel THEN "par_start" ELSE "serial_loop"
  /\ lic_err = "none"
  /\ sfield_out = ZeroField(num_rows, num_cols)
  /\ row_index = 0 /\ col_index = 0
  /\ shm_vfield = NoShm /\ shm_sfield = NoShm
  /\ chunks = <<>> /\ chunk_out = <<>> /\ results = <<>> /\ res_pos = 0
  /\ writes = [r \in Rows(num_rows) |-> 0]

\* ---- _serial.compute_lic: one iteration of the inner loop
SerialPixel ==
  /\ lic_pc = "serial_loop"
  /\ LET px == serial_pixel(vfield, sfield_in, num_rows, num_cols, streamlength,
                            use_periodic_BCs, row_index, col_index)
         last_col == col_index + 1 = num_cols
         last_row == row_index + 1 = num_rows
     IN  IF px.raised
         THEN /\ lic_pc' = "raised"
              /\ lic_err' = px.err
              /\ UNCHANGED <<sfield_out, row_index, col_index>>
         ELSE /\ sfield_out' = [sfield_out EXCEPT ![row_index][col_index] = px.value]
              /\ col_index' = IF last_col THEN 0 ELSE col_index + 1
              /\ row_index' = IF last_col THEN row_index + 1 ELSE row_index
              /\ lic_pc' = IF last_col /\ last_row THEN "returned" ELSE "serial_loop"
              /\ UNCHANGED lic_err
  /\ UNCHANGED <<libVars, inputVars, streamVars, apiVars, use_parallel, cpu_count, shm_vfield, shm_sfield,
                 chunks, chunk_out, results, res_pos, writes>>

\* ---- _parallel.compute_lic, lines 51-56: the inputs are copied to shared memory
ParCreateShm ==
  /\ lic_pc = "par_start"
  /\ shm_vfield' = [state |-> "live", arr |-> vfield]
  /\ shm_sfield' = [state |-> "live", arr |-> sfield_in]
  /\ lic_pc' = "par_try"
  /\ UNCHANGED <<libVars, inputVars, streamVars, apiVars, use_parallel, cpu_count, lic_err, sfield_out,
                 row_index, col_index, chunks, chunk_out, results, res_pos, writes>>

\* lines 58-69: the pool is created and starmap queues one task per row, in chunks
ParSubmit ==
  /\ lic_pc = "par_try"
  /\ chunks' = [k \in 0 .. NumChunks(num_rows, cpu_count) - 1 |-> "queued"]
  /\ chunk_out' = [k \in 0 .. NumChunks(num_rows, cpu_count) - 1 |-> <<>>]
  /\ lic_pc' = "par_wait"
  /\ UNCHANGED <<libVars, inputVars, streamVars, apiVars, use_parallel, cpu_count, lic_err, sfield_out,
                 row_index, col_index, shm_vfield, shm_sfield, results, res_pos, writes>>

\* a free worker of the pool takes a queued chunk
StartChunk(k) ==
  /\ lic_pc = "par_wait"
  /\ chunks[k] = "queued"
  /\ Cardinality({j \in DOMAIN chunks : chunks[j] = "running"}) < cpu_count
  /\ chunks' = [chunks EXCEPT ![k] = "running"]
  /\ UNCHANGED <<libVars, inputVars, streamVars, apiVars, use_parallel, cpu_count, lic_pc, lic_err, sfield_out,
                 row_index, col_index, shm_vfield, shm_sfield, chunk_out, results, res_pos,
                 writes>>

\* variant of FinishChunk whose worker stores the first row it computed into
\* the shared scalar field instead of keeping it private
FinishChunk_writes_shared(k) ==
  /\ lic_pc = "par_wait"
  /\ chunks[k] = "running"
  /\ LET res == run_chunk(k, shm_vfield.arr, shm_sfield.arr, num_rows, num_cols,
                          streamlength, use_periodic_BCs, cpu_count)
     IN  IF res.raised
         THEN /\ chunks' = [chunks EXCEPT ![k] = "failed"]
              /\ lic_err' = IF lic_err = "none" THEN res.err ELSE lic_err
              /\ UNCHANGED <<chunk_out, shm_sfield>>
         ELSE /\ chunks' = [chunks EXCEPT ![k] = "done"]
              /\ chunk_out' = [chunk_out EXCEPT ![k] = res.out]
              /\ shm_sfield' = [shm_sfield EXCEPT !.arr[res.out[1][1]] = res.out[1][2]]
              /\ UNCHANGED lic_err
  /\ UNCHANGED <<libVars, inputVars, streamVars, apiVars, use_parallel, cpu_count, lic_pc, sfield_out,
                 row_index, col_index, shm_vfield, results, res_pos, writes>>

\* the worker finishes the chunk: every task returned its (row_index, row_results),
\* or one raised; the pool keeps the first exception it receives
FinishChunk(k) ==
  /\ lic_pc = "par_wait"
  /\ chunks[k] = "running"
  /\ LET res == run_chunk(k, shm_vfield.arr, shm_sfield.arr, num_rows, num_cols,
                          streamlength, use_periodic_BCs, cpu_count)
     IN  IF res.raised
         THEN /\ chunks' = [chunks EXCEPT ![k] = "failed"]
              /\ lic_err' = IF lic_err = "none" THEN res.err ELSE lic_err
              /\ UNCHANGED chunk_out
         ELSE /\ chunks' = [chunks EXCEPT ![k] = "done"]
              /\ chunk_out' = [chunk_out EXCEPT ![k] = res.out]
              /\ UNCHANGED lic_err
  /\ UNCHANGED <<libVars, inputVars, streamVars, apiVars, use_parallel, cpu_count, lic_pc, sfield_out,
                 row_index, col_index, shm_vfield, shm_sfield, results, res_pos, writes>>

\* the results of the chunks 0 .. k-1 in the order of the arguments
RECURSIVE ConcatChunks(_, _, _)
ConcatChunks(out, k, n) ==
  IF k = n THEN <<>> ELSE out[k] \o ConcatChunks(out, k + 1, n)

\* variant of ParJoin that hands over the results of the chunks that succeeded
\* even when another chunk raised
ParJoin_keep_partial ==
  /\ lic_pc = "par_wait"
  /\ \A k \in DOMAIN chunks : chunks[k] \in {"done", "failed"}
  /\ results' = ConcatChunks(chunk_out, 0, NumChunks(num_rows, cpu_count))
  /\ res_pos' = 1
  /\ lic_pc' = "par_assemble"
  /\ UNCHANGED <<libVars, inputVars, streamVars, apiVars, use_parallel, cpu_count, lic_err, sfield_out,
                 row_index, col_index, shm_vfield, shm_sfield, chunks, chunk_out, writes>>

\* starmap returns once every chunk has finished: the list of all results when
\* every task succeeded, else it raises and control goes to the finally block
ParJoin ==
  /\ lic_pc = "par_wait"
  /\ \A k \in DOMAIN chunks : chunks[k] \in {"done", "failed"}
  /\ IF \E k \in DOMAIN chunks : chunks[k] = "failed"
     THEN /\ lic_pc' = "par_finally"
          /\ UNCHANGED <<results, res_pos>>
     ELSE /\ results' = ConcatChunks(chunk_out, 0, NumChunks(num_rows, cpu_count))
          /\ res_pos' = 1
          /\ lic_pc' = "par_assemble"
  /\ UNCHANGED <<libVars, inputVars, streamVars, apiVars, use_parallel, cpu_count, lic_err, sfield_out,
                 row_index, col_index, shm_vfield, shm_sfield, chunks, chunk_out, writes>>

\* lines 70-71: for row_index, row_data in results: sfield_out[row_index] = row_data
ParAssemble ==
  /\ lic_pc = "par_assemble"
  /\ IF res_pos > Len(results)
     THEN /\ lic_pc' = "par_finally"
          /\ UNCHANGED <<sfield_out, row_index, res_pos, writes>>
     ELSE LET tag  == results[res_pos][1]
              data == results[res_pos][2]
          IN  /\ row_index' = tag
              /\ sfield_out' = [sfield_out EXCEPT ![tag] = data]
              /\ writes' = [writes EXCEPT ![tag] = @ + 1]
              /\ res_pos' = res_pos + 1
              /\ UNCHANGED lic_pc
  /\ UNCHANGED <<libVars, inputVars, streamVars, apiVars, use_parallel, cpu_count, lic_err, col_index,
                 shm_vfield, shm_sfield, chunks, chunk_out, results>>

\* variant of ParFinally that cleans up at the end of the try block instead of
\* in a finally block: the segments are closed and unlinked on success only
ParFinally_cleanup_on_success ==
  /\ lic_pc = "par_finally"
  /\ shm_vfield' = IF lic_err = "none" THEN [shm_vfield EXCEPT !.state = "unlinked"]
                   ELSE shm_vfield
  /\ shm_sfield' = IF lic_err = "none" THEN [shm_sfield EXCEPT !.state = "unlinked"]
                   ELSE shm_sfield
  /\ lic_pc' = IF lic_err = "none" THEN "returned" ELSE "raised"
  /\ UNCHANGED <<libVars, inputVars, streamVars, apiVars, use_parallel, cpu_count, lic_err, sfield_out,
                 row_index, col_index, chunks, chunk_out, results, res_pos, writes>>

\* lines 72-78: the finally block closes and unlinks both segments; then the
\* function returns sfield_out, or the exception of starmap propagates
ParFinally ==
  /\ lic_pc = "par_finally"
  /\ shm_vfield' = [shm_vfield EXCEPT !.state = "unlinked"]
  /\ shm_sfield' = [shm_sfield EXCEPT !.state = "unlinked"]
  /\ lic_pc' = IF lic_err = "none" THEN "returned" ELSE "raised"
  /\ UNCHANGED <<libVars, inputVars, streamVars, apiVars, use_parallel, cpu_count, lic_err, sfield_out,
                 row_index, col_index, chunks, chunk_out, results, res_pos, writes>>

Next ==
  \/ SerialPixel
  \/ ParCreateShm
  \/ ParSubmit
  \/ \E k \in DOMAIN chunks : StartChunk(k)
  \/ \E k \in DOMAIN chunks : FinishChunk(k)
  \/ ParJoin
  \/ ParAssemble
  \/ ParFinally

Spec == PassInit /\ [][Next]_vars

(***************************************************************************)
(* ShmSpec: the same pass, where in addition the driver's own statements   *)
(* inside the try block may raise: Pool(...) cannot start its workers      *)
(* (OSError), or the assignment of a row to sfield_out fails (ValueError   *)
(* for an output array of another shape).                                  *)
(***************************************************************************)
\* line 59: Pool(processes=cpu_count()) raises
ParPoolFails ==
  /\ lic_pc = "par_try"
  /\ lic_err' = "OSError"
  /\ lic_pc' = "par_finally"
  /\ UNCHANGED <<libVars, inputVars, streamVars, apiVars, use_parallel, cpu_count, sfield_out,
                 row_index, col_index, shm_vfield, shm_sfield, chunks, chunk_out, results,
                 res_pos, writes>>

\* lines 71-72: sfield_out[row_index] = row_data raises
ParAssembleFails ==
  /\ lic_pc = "par_assemble"
  /\ res_pos <= Len(results)
  /\ row_index' = results[res_pos][1]
  /\ lic_err' = "ValueError"
  /\ lic_pc' = "par_finally"
  /\ UNCHANGED <<libVars, inputVars, streamVars, apiVars, use_parallel, cpu_count, sfield_out,
                 col_index, shm_vfield, shm_sfield, chunks, chunk_out, results, res_pos, writes>>

ShmNext ==
  \/ Next
  \/ ParPoolFails
  \/ ParAssembleFails

ShmSpec == PassInit /\ [][ShmNext]_vars

(***************************************************************************)
(* ApiSpec: one call of the public API, _api.compute_lic or                *)
(* _api.compute_lic_with_postprocessing, with arbitrary arguments.  Arrays *)
(* are modelled by their shapes (<<>> stands for None); api_st.log lists   *)
(* the operations performed on the fields, in order: "seed" (random        *)
(* texture), "pad", "lic" (one convolution pass over the whole field),     *)
(* "norm" (division by the maximum), "filter", "crop", "equalize".         *)
(***************************************************************************)
MinStreamlength == 5

\* the arguments of the call
ApiArgs ==
  [ entry   : {"compute_lic"},
    backend : {"none"},
    num_lic_passes : {1}, num_postprocess_cycles : {1},
    use_filter : {FALSE}, use_equalize : {FALSE},
    use_periodic_BCs : BOOLEAN,
    num_vcomps : 1 .. 3,
    shape : { <<8, 20>>, <<24, 20>> },
    sfield_given : BOOLEAN, sfield_shape_ok : BOOLEAN,
    streamlength_given : BOOLEAN, streamlength : {2, 5, 10} ]
  \cup
  [ entry   : {"compute_lic_with_postprocessing"},
    backend : {"python", "rust", "numba"},
    num_lic_passes : 1 .. MaxPasses, num_postprocess_cycles : 1 .. MaxCycles,
    use_filter : BOOLEAN, use_equalize : BOOLEAN,
    use_periodic_BCs : BOOLEAN,
    num_vcomps : 1 .. 3,
    shape : { <<8, 20>>, <<24, 20>> },
    sfield_given : BOOLEAN, sfield_shape_ok : BOOLEAN,
    streamlength_given : BOOLEAN, streamlength : {2, 5, 10} ]

\* the shape of the sfield_in argument: the spatial shape of vfield, or one row more
ArgSfieldShape(a) ==
  IF ~a.sfield_given THEN <<>>
  ELSE IF a.sfield_shape_ok THEN a.shape
  ELSE <<a.shape[1] + 1, a.shape[2]>>

MinOf(a, b) == IF a < b THEN a ELSE b

ApiInit ==
  /\ vfield = <<>> /\ sfield_in = <<>> /\ num_rows = 0 /\ num_cols = 0
  /\ streamlength = 0 /\ use_periodic_BCs = FALSE
  /\ StreamIdle
  /\ PassIdle
  /\ LibIdle
  /\ api \in { a \in ApiArgs :
                 /\ (~a.sfield_given => a.sfield_shape_ok)
                 /\ (~a.streamlength_given => a.streamlength = 2) }
  /\ api_st = [ pc     |-> IF api.entry = "compute_lic" THEN "in_lic" ELSE "pp_prepare",
                cl_pc  |-> IF api.entry = "compute_lic" THEN "validate" ELSE "idle",
                err    |-> "none",
                streamlength_set |-> api.streamlength_given,
                streamlength     |-> IF api.streamlength_given THEN api.streamlength ELSE 0,
                vshape    |-> <<api.num_vcomps, api.shape[1], api.shape[2]>>,
                sfield_in |-> ArgSfieldShape(api),
                sfield    |-> <<>>,
                in_val    |-> IF api.sfield_given THEN <<"given">> ELSE <<>>,
                out_val   |-> <<>>,
                passes    |-> <<>>,
                cycle_out |-> <<>>,
                cycle  |-> 0,
                pass   |-> 0,
                log    |-> <<>> ]

\* The contents of the arrays sfield_in and sfield are followed as the sequence
\* of the operations that produced them (in_val, out_val); passes records the
\* input and the output of every convolution pass, cycle_out the value of
\* sfield at the end of every cycle.
ApiFrame == <<libVars, inputVars, streamVars, passVars, api>>

\* ---- compute_lic lines 47-58: the assertions on the arguments, the output
\* buffer and the random texture
CLValidate ==
  /\ api_st.cl_pc = "validate"
  /\ IF api_st.vshape[1] # 2
     THEN api_st' = [api_st EXCEPT !.cl_pc = "raised", !.pc = "raised",
                                   !.err = "AssertionError"]
     ELSE IF api_st.sfield_in = <<>>
     THEN api_st' = [api_st EXCEPT !.cl_pc = "run",
                                   !.sfield_in = <<api_st.vshape[2], api_st.vshape[3]>>,
                                   !.in_val = <<"seed">>,
                                   !.log = Append(@, "seed")]
     ELSE IF api_st.sfield_in # <<api_st.vshape[2], api_st.vshape[3]>>
     THEN api_st' = [api_st EXCEPT !.cl_pc = "raised", !.pc = "raised",
                                   !.err = "AssertionError"]
     ELSE api_st' = [api_st EXCEPT !.cl_pc = "run"]
  /\ UNCHANGED ApiFrame

\* ---- compute_lic lines 59-79: the default streamlength, then the pass of
\* _parallel.compute_lic or _serial.compute_lic, whose result is returned
CLRun ==
  /\ api_st.cl_pc = "run"
  /\ api_st' = [api_st EXCEPT
       !.cl_pc = "returned",
       !.pc = IF api.entry = "compute_lic" THEN "returned" ELSE api_st.pc,
       !.streamlength_set = TRUE,
       !.streamlength = IF api_st.streamlength_set THEN api_st.streamlength
                        ELSE MinOf(api_st.vshape[2], api_st.vshape[3]) \div 4,
       !.sfield = <<api_st.vshape[2], api_st.vshape[3]>>,
       !.out_val = Append(api_st.in_val, "lic"),
       !.passes = Append(@, [cycle |-> api_st.cycle, pass |-> api_st.pass,
                             input |-> api_st.in_val,
                             output |-> Append(api_st.in_val, "lic")]),
       !.log = Append(@, "lic")]
  /\ UNCHANGED ApiFrame

\* ---- compute_lic_with_postprocessing lines 143-149
PPPrepare ==
  /\ api_st.pc = "pp_prepare"
  /\ LET shape  == <<api_st.vshape[2], api_st.vshape[3]>>
         seeded == [api_st EXCEPT
                      !.sfield_in = IF api_st.sfield_in = <<>> THEN shape ELSE @,
                      !.in_val = IF api_st.sfield_in = <<>> THEN <<"seed">> ELSE @,
                      !.log = IF api_st.sfield_in = <<>> THEN Append(@, "seed") ELSE @]
     IN  IF ~api_st.streamlength_set
         THEN api_st' = [seeded EXCEPT !.pc = "pp_dispatch",
                                       !.streamlength_set = TRUE,
                                       !.streamlength = MinOf(shape[1], shape[2]) \div 4]
         ELSE IF api_st.streamlength < MinStreamlength
         THEN api_st' = [seeded EXCEPT !.pc = "raised", !.err = "ValueError"]
         ELSE api_st' = [seeded EXCEPT !.pc = "pp_dispatch"]
  /\ UNCHANGED ApiFrame

\* lines 150, 165, 179: the backend is selected by name
PPDispatch ==
  /\ api_st.pc = "pp_dispatch"
  /\ api_st' = [api_st EXCEPT
       !.pc  = CASE api.backend = "python" -> "py_pass"
                 [] api.backend = "rust"   -> "rust_pad"
                 [] OTHER                  -> "raised",
       !.err = IF api.backend \in {"python", "rust"} THEN "none" ELSE "ValueError"]
  /\ UNCHANGED ApiFrame

\* lines 152-160: the python backend calls compute_lic for the next pass
PyCallLic ==
  /\ api_st.pc = "py_pass"
  /\ api_st' = [api_st EXCEPT !.pc = "py_in_lic", !.cl_pc = "validate"]
  /\ UNCHANGED ApiFrame

\* variant of PyAfterLic that applies the high-pass filter after every pass
PyAfterLic_filter_each_pass ==
  /\ api_st.pc = "py_in_lic"
  /\ api_st.cl_pc = "returned"
  /\ api_st' = [api_st EXCEPT
       !.cl_pc = "idle",
       !.sfield_in = api_st.sfield,
       !.in_val = api_st.out_val,
       !.out_val = IF api.use_filter THEN Append(@, "filter") ELSE @,
       !.log = IF api.use_filter THEN Append(@, "filter") ELSE @,
       !.pass = IF api_st.pass + 1 = api.num_lic_passes THEN 0 ELSE api_st.pass + 1,
       !.pc = IF api_st.pass + 1 = api.num_lic_passes THEN "py_end_cycle" ELSE "py_pass"]
  /\ UNCHANGED ApiFrame

\* lines 154-161: compute_lic returned; its result is the input of the next pass
PyAfterLic ==
  /\ api_st.pc = "py_in_lic"
  /\ api_st.cl_pc = "returned"
  /\ api_st' = [api_st EXCEPT
       !.cl_pc = "idle",
       !.sfield_in = api_st.sfield,
       !.in_val = api_st.out_val,
       !.pass = IF api_st.pass + 1 = api.num_lic_passes THEN 0 ELSE api_st.pass + 1,
       !.pc = IF api_st.pass + 1 = api.num_lic_passes THEN "py_end_cycle" ELSE "py_pass"]
  /\ UNCHANGED ApiFrame

\* line 162: the high-pass filter at the end of a cycle
PyEndCycle ==
  /\ api_st.pc = "py_end_cycle"
  /\ api_st' = [api_st EXCEPT
       !.out_val = IF api.use_filter THEN Append(@, "filter") ELSE @,
       !.cycle_out = Append(@, IF api.use_filter THEN Append(api_st.out_val, "filter")
                               ELSE api_st.out_val),
       !.log = IF api.use_filter THEN Append(@, "filter") ELSE @,
       !.cycle = api_st.cycle + 1,
       !.pc = IF api_st.cycle + 1 = api.num_postprocess_cycles
              THEN "py_finish" ELSE "py_pass"]
  /\ UNCHANGED ApiFrame

\* lines 163-164
PyFinish ==
  /\ api_st.pc = "py_finish"
  /\ api_st' = [api_st EXCEPT
       !.out_val = IF api.use_equalize THEN Append(@, "equalize") ELSE @,
       !.log = IF api.use_equalize THEN Append(@, "equalize") ELSE @,
       !.pc = "returned"]
  /\ UNCHANGED ApiFrame

\* lines 166-170: wrap padding of both fields by streamlength, and the kernel
RustPad ==
  /\ api_st.pc = "rust_pad"
  /\ LET L == api_st.streamlength
     IN  api_st' = [api_st EXCEPT
           !.pc = "rust_convolve",
           !.sfield_in = IF api.use_periodic_BCs
                         THEN <<@[1] + 2 * L, @[2] + 2 * L>> ELSE @,
           !.vshape    = IF api.use_periodic_BCs
                         THEN <<@[1], @[2] + 2 * L, @[3] + 2 * L>> ELSE @,
           !.in_val = IF api.use_periodic_BCs THEN Append(@, "pad") ELSE @,
           !.log = IF api.use_periodic_BCs THEN Append(@, "pad") ELSE @]
  /\ UNCHANGED ApiFrame

\* line 172: rlic.convolve(sfield_in, vfield[0], vfield[1], kernel, iterations);
\* vfield[1] is an IndexError on a one-component field, and rLIC rejects a
\* texture whose shape differs from the shape of the two components
RECURSIVE Repeat(_, _)
Repeat(x, n) == IF n = 0 THEN <<>> ELSE <<x>> \o Repeat(x, n - 1)

\* the iterations i .. n - 1 of one rlic.convolve call: every iteration
\* convolves the output of the one before
RECURSIVE RustPasses(_, _, _, _)
RustPasses(cycle, input, i, n) ==
  IF i = n THEN <<>>
  ELSE <<[cycle |-> cycle, pass |-> i, input |-> input, output |-> Append(input, "lic")]>>
         \o RustPasses(cycle, Append(input, "lic"), i + 1, n)

RustConvolve ==
  /\ api_st.pc = "rust_convolve"
  /\ IF api_st.vshape[1] < 2
     THEN api_st' = [api_st EXCEPT !.pc = "raised", !.err = "IndexError"]
     ELSE IF api_st.sfield_in # <<api_st.vshape[2], api_st.vshape[3]>>
     THEN api_st' = [api_st EXCEPT !.pc = "raised", !.err = "ValueError"]
     ELSE api_st' = [api_st EXCEPT
            !.pc = "rust_normalize",
            !.sfield = api_st.sfield_in,
            !.out_val = api_st.in_val \o Repeat("lic", api.num_lic_passes),
            !.passes = @ \o RustPasses(api_st.cycle, api_st.in_val, 0, api.num_lic_passes),
            !.log = @ \o Repeat("lic", api.num_lic_passes)]
  /\ UNCHANGED ApiFrame

\* lines 173-175: division by the maximum, the result is the next input, filter
RustEndCycle ==
  /\ api_st.pc = "rust_normalize"
  /\ api_st' = [api_st EXCEPT
       !.sfield_in = api_st.sfield,
       !.in_val = Append(api_st.out_val, "norm"),
       !.out_val = (@ \o <<"norm">>) \o (IF api.use_filter THEN <<"filter">> ELSE <<>>),
       !.cycle_out = Append(@, (api_st.out_val \o <<"norm">>)
                               \o (IF api.use_filter THEN <<"filter">> ELSE <<>>)),
       !.log = (@ \o <<"norm">>) \o (IF api.use_filter THEN <<"filter">> ELSE <<>>),
       !.cycle = api_st.cycle + 1,
       !.pc = IF api_st.cycle + 1 = api.num_postprocess_cycles
              THEN "rust_finish" ELSE "rust_convolve"]
  /\ UNCHANGED ApiFrame

\* variant of CropLen that removes the margin at one end only
CropLen_one_margin(n, L) == IF n - L > 0 THEN n - L ELSE 0

\* the length of a[L:-L] for an axis of length n
CropLen(n, L) ==
  IF L = 0 THEN 0 ELSE IF n - 2 * L > 0 THEN n - 2 * L ELSE 0

\* lines 176-178: the padding is cropped, the result equalized and returned
RustFinish ==
  /\ api_st.pc = "rust_finish"
  /\ LET L == api_st.streamlength
     IN  api_st' = [api_st EXCEPT
           !.pc = "returned",
           !.sfield = IF api.use_periodic_BCs
                      THEN <<CropLen(@[1], L), CropLen(@[2], L)>> ELSE @,
           !.out_val = (@ \o (IF api.use_periodic_BCs THEN <<"crop">> ELSE <<>>))
                       \o (IF api.use_equalize THEN <<"equalize">> ELSE <<>>),
           !.log = (@ \o (IF api.use_periodic_BCs THEN <<"crop">> ELSE <<>>))
                   \o (IF api.use_equalize THEN <<"equalize">> ELSE <<>>)]
  /\ UNCHANGED ApiFrame

ApiNext ==
  \/ CLValidate
  \/ CLRun
  \/ PPPrepare
  \/ PPDispatch
  \/ PyCallLic
  \/ PyAfterLic
  \/ PyEndCycle
  \/ PyFinish
  \/ RustPad
  \/ RustConvolve
  \/ RustEndCycle
  \/ RustFinish

ApiSpec == ApiInit /\ [][ApiNext]_vars

(***************************************************************************)
(* ConstStreamSpec and ConstPassSpec: the same streamline loop and the     *)
(* same pass on grids of at most MaxConstRows x MaxConstCols cells whose   *)
(* vector field holds one vector in every cell.                            *)
(***************************************************************************)
ConstVecSet == { <<Zero, Zero>>,
                 <<IntVal(1), Zero>>,
                 <<IntVal(-1), IntVal(2)>>,
                 <<Zero, IntVal(-1)>> }

ConstVFields(nr, nc) ==
  { VFieldOf([r \in Rows(nr) |-> [c \in Cols(nc) |-> v]], nr, nc) : v \in ConstVecSet }

\* the values of the uniform scalar fields
UniformValues == { IntVal(1), Fin(3, 4), IntVal(-2) }

ConstSFields(nr, nc) ==
  { [r \in Rows(nr) |-> [c \in Cols(nc) |-> v]] : v \in UniformValues }
    \cup { [r \in Rows(nr) |-> [c \in Cols(nc) |-> IntVal(1 + r * nc + c)]] }

ConstInputInit ==
  /\ num_rows \in 1 .. MaxConstRows
  /\ num_cols \in 1 .. MaxConstCols
  /\ vfield \in ConstVFields(num_rows, num_cols)
  /\ sfield_in \in ConstSFields(num_rows, num_cols)
  /\ streamlength \in 0 .. MaxConstStreamlength
  /\ use_periodic_BCs \in BOOLEAN

ConstStreamInit ==
  /\ ConstInputInit
  /\ PassIdle
  /\ ApiIdle
  /\ LibIdle
  /\ start_row \in Rows(num_rows)
  /\ start_col \in Cols(num_cols)
  /\ dir_sgn \in {1, -1}
  /\ sl = StreamStart(start_row, start_col, streamlength)

ConstStreamSpec == ConstStreamInit /\ [][StreamNext]_vars

ConstPassInit ==
  /\ ConstInputInit
  /\ StreamIdle
  /\ ApiIdle
  /\ LibIdle
  /\ use_parallel \in BOOLEAN
  /\ cpu_count \in (IF use_parallel THEN 1 .. MaxCpus ELSE {1})
  /\ lic_pc = IF use_parallel THEN "par_start" ELSE "serial_loop"
  /\ lic_err = "none"
  /\ sfield_out = ZeroField(num_rows, num_cols)
  /\ row_index = 0 /\ col_index = 0
  /\ shm_vfield = NoShm /\ shm_sfield = NoShm
  /\ chunks = <<>> /\ chunk_out = <<>> /\ results = <<>> /\ res_pos = 0
  /\ writes = [r \in Rows(num_rows) |-> 0]

ConstPassSpec == ConstPassInit /\ [][Next]_vars

(***************************************************************************)
(* SeedSpec: two calls of the API without an input scalar field, in one    *)
(* process.  numpy.random is one process-wide generator: its state is a    *)
(* number below RngStates, seed(s) sets it to a function of s, and every   *)
(* number drawn is a function of the state, which it advances.  Other code *)
(* of the process may draw numbers before each call.                       *)
(***************************************************************************)
NoSeed == -1

\* numpy.random.seed(s)
rng_seed(s) == (3 * s + 1) % RngStates

\* the state after one number has been drawn
rng_step(x) == (2 * x + 3) % RngStates

\* numpy.random.rand(n) from state x: the numbers drawn and the state after
RECURSIVE rng_rand(_, _)
rng_rand(x, n) ==
  IF n = 0 THEN [values |-> <<>>, state |-> x]
  ELSE [ values |-> <<x>> \o rng_rand(rng_step(x), n - 1).values,
         state  |-> rng_rand(rng_step(x), n - 1).state ]

SeedArgs ==
  [ entry       : {"compute_lic", "compute_lic_with_postprocessing"},
    seed_sfield : {NoSeed, 42, 7},
    cells       : 1 .. MaxSeedCells ]

SeedInit ==
  /\ vfield = <<>> /\ sfield_in = <<>> /\ num_rows = 0 /\ num_cols = 0
  /\ streamlength = 0 /\ use_periodic_BCs = FALSE
  /\ StreamIdle
  /\ PassIdle
  /\ ApiIdle
  /\ heap = <<>> /\ md = <<>>
  /\ IoIdle /\ H5Idle
  /\ rng \in 0 .. RngStates - 1
  /\ \E a \in SeedArgs :
       seed_run = [ pc |-> "idle", call |-> 1, args |-> a, draws |-> 0,
                    before |-> <<>>, texture |-> <<>>, out |-> <<>> ]

SeedFrame == <<inputVars, streamVars, passVars, apiVars, dictVars, ioVars, h5Vars>>

\* other code of the process draws a number from the global generator
OtherDraw ==
  /\ seed_run.pc = "idle"
  /\ seed_run.draws < MaxOtherDraws
  /\ rng' = rng_step(rng)
  /\ seed_run' = [seed_run EXCEPT !.draws = @ + 1]
  /\ UNCHANGED SeedFrame

\* the API is called with sfield_in = None
SeedCall ==
  /\ seed_run.pc = "idle"
  /\ seed_run' = [seed_run EXCEPT !.pc = "called", !.before = Append(@, rng)]
  /\ UNCHANGED <<rng, SeedFrame>>

\* variant of MakeTexture that draws the texture without seeding the generator
MakeTexture_unseeded ==
  /\ seed_run.pc = "called"
  /\ rng' = rng_rand(rng, seed_run.args.cells).state
  /\ seed_run' = [seed_run EXCEPT
       !.pc = "textured",
       !.texture = Append(@, rng_rand(rng, seed_run.args.cells).values)]
  /\ UNCHANGED SeedFrame

\* _api.py lines 51-53 and 145-147: the generator is seeded when a seed is
\* given, and the texture is drawn from it
MakeTexture ==
  /\ seed_run.pc = "called"
  /\ LET start == IF seed_run.args.seed_sfield # NoSeed
                  THEN rng_seed(seed_run.args.seed_sfield) ELSE rng
     IN  /\ rng' = rng_rand(start, seed_run.args.cells).state
         /\ seed_run' = [seed_run EXCEPT
              !.pc = "textured",
              !.texture = Append(@, rng_rand(start, seed_run.args.cells).values)]
  /\ UNCHANGED SeedFrame

\* the passes and the post-processing draw no random numbers: the output is a
\* function of the arguments and of the texture
RunOnTexture ==
  /\ seed_run.pc = "textured"
  /\ seed_run' = [seed_run EXCEPT
       !.out = Append(@, [entry |-> seed_run.args.entry,
                          texture |-> seed_run.texture[seed_run.call]]),
       !.pc = IF seed_run.call = 1 THEN "idle" ELSE "done",
       !.call = IF seed_run.call = 1 THEN 2 ELSE @,
       !.draws = 0]
  /\ UNCHANGED <<rng, SeedFrame>>

SeedNext ==
  \/ OtherDraw
  \/ SeedCall
  \/ MakeTexture
  \/ RunOnTexture

SeedSpec == SeedInit /\ [][SeedNext]_vars

(***************************************************************************)
(* DictSpec: jormi/utils/dict_utils.py, merge_dicts.  Python objects live  *)
(* in heap, a sequence indexed by address: a dict, list or set is a record *)
(* [kind, keys, vals]; a value is <<"int", n>> or a reference              *)
(* <<"ref", address>>.  Two names that hold the same address share the     *)
(* object.                                                                 *)
(***************************************************************************)
KindOf(h, c) == IF c[1] = "ref" THEN h[c[2]].kind ELSE "scalar"

HasKey(obj, key) == \E i \in DOMAIN obj.keys : obj.keys[i] = key
KeyIndex(obj, key) == CHOOSE i \in DOMAIN obj.keys : obj.keys[i] = key

\* h after d[key] = c for the dict at address d
SetItem(h, d, key, c) ==
  IF HasKey(h[d], key)
  THEN [h EXCEPT ![d].vals[KeyIndex(h[d], key)] = c]
  ELSE [h EXCEPT ![d].keys = Append(@, key), ![d].vals = Append(@, c)]

\* the elements of ys that are not in xs
RECURSIVE NotIn(_, _, _)
NotIn(xs, ys, i) ==
  IF i > Len(ys) THEN <<>>
  ELSE (IF \E j \in DOMAIN xs : xs[j] = ys[i] THEN <<>> ELSE <<ys[i]>>) \o NotIn(xs, ys, i + 1)

\* copy.deepcopy(c): every object reachable from c is allocated anew
RECURSIVE deepcopy(_, _)
RECURSIVE deepcopy_vals(_, _, _, _)
deepcopy_vals(h, vals, i, acc) ==
  IF i > Len(vals) THEN [heap |-> h, vals |-> acc]
  ELSE deepcopy_vals(deepcopy(h, vals[i]).heap, vals, i + 1,
                     Append(acc, deepcopy(h, vals[i]).cell))

deepcopy(h, c) ==
  IF c[1] # "ref" THEN [heap |-> h, cell |-> c]
  ELSE [ heap |-> Append(deepcopy_vals(h, h[c[2]].vals, 1, <<>>).heap,
                         [h[c[2]] EXCEPT !.vals = deepcopy_vals(h, h[c[2]].vals, 1, <<>>).vals]),
         cell |-> <<"ref", Len(deepcopy_vals(h, h[c[2]].vals, 1, <<>>).heap) + 1>> ]

RECURSIVE merge_dicts(_, _, _)
RECURSIVE merge_loop(_, _, _, _)

\* lines 24-38: key is in merged_dict, with value cur
merge_present(h, m, key, cur, value) ==
  IF KindOf(h, cur) = "dict" /\ KindOf(h, value) = "dict"
  THEN SetItem(merge_dicts(h, cur[2], value[2]).heap, m, key,
               <<"ref", merge_dicts(h, cur[2], value[2]).addr>>)
  ELSE IF KindOf(h, cur) = "list" /\ KindOf(h, value) = "list"
  THEN SetItem(Append(h, [kind |-> "list", keys |-> <<>>,
                          vals |-> h[cur[2]].vals \o h[value[2]].vals]),
               m, key, <<"ref", Len(h) + 1>>)
  ELSE IF KindOf(h, cur) = "set" /\ KindOf(h, value) = "set"
  THEN SetItem(Append(h, [kind |-> "set", keys |-> <<>>,
                          vals |-> h[cur[2]].vals \o NotIn(h[cur[2]].vals, h[value[2]].vals, 1)]),
               m, key, <<"ref", Len(h) + 1>>)
  ELSE IF KindOf(h, value) \in {"dict", "list", "set"}
  THEN SetItem(deepcopy(h, value).heap, m, key, deepcopy(h, value).cell)
  ELSE SetItem(h, m, key, value)

\* lines 23-39: one iteration of the loop over dict_b.items()
merge_item(h, m, key, value) ==
  IF HasKey(h[m], key)
  THEN merge_present(h, m, key, h[m].vals[KeyIndex(h[m], key)], value)
  ELSE SetItem(h, m, key, value)

merge_loop(h, m, b, i) ==
  IF i > Len(h[b].keys) THEN h
  ELSE merge_loop(merge_item(h, m, h[b].keys[i], h[b].vals[i]), m, b, i + 1)

\* merge_dicts(dict_a, dict_b) for the dicts at the addresses a and b: the heap
\* after the call and the address of the returned dict (dict_a.copy(), line 22,
\* is a new dict holding the same values)
merge_dicts(h, a, b) ==
  [ heap |-> merge_loop(Append(h, h[a]), Len(h) + 1, b, 1),
    addr |-> Len(h) + 1 ]

\* the values an input dict may hold under a key
ValueShapes == {"absent", "int", "list", "set", "dict", "dict_of_list"}
DictKeys == <<"a", "b">>

\* the heap after building a value of the given shape, and the value
BuildValue(h, shape, n) ==
  CASE shape = "int"  -> [heap |-> h, cell |-> <<"int", n>>]
    [] shape = "list" ->
         [heap |-> Append(h, [kind |-> "list", keys |-> <<>>,
                              vals |-> << <<"int", n>>, <<"int", n + 1>> >>]),
          cell |-> <<"ref", Len(h) + 1>>]
    [] shape = "set"  ->
         [heap |-> Append(h, [kind |-> "set", keys |-> <<>>, vals |-> << <<"int", n>> >>]),
          cell |-> <<"ref", Len(h) + 1>>]
    [] shape = "dict" ->
         [heap |-> Append(h, [kind |-> "dict", keys |-> <<"x">>, vals |-> << <<"int", n>> >>]),
          cell |-> <<"ref", Len(h) + 1>>]
    [] shape = "dict_y" ->
         [heap |-> Append(h, [kind |-> "dict", keys |-> <<"y">>, vals |-> << <<"int", n>> >>]),
          cell |-> <<"ref", Len(h) + 1>>]
    [] shape = "dict_of_list" ->
         [heap |-> Append(Append(h, [kind |-> "list", keys |-> <<>>,
                                     vals |-> << <<"int", n>> >>]),
                          [kind |-> "dict", keys |-> <<"x">>,
                           vals |-> << <<"ref", Len(h) + 1>> >>]),
          cell |-> <<"ref", Len(h) + 2>>]

\* the heap after building the dict that holds shapes[i] under DictKeys[i]
RECURSIVE BuildItems(_, _, _, _, _)
BuildItems(h, d, shapes, n, i) ==
  IF i > Len(DictKeys) THEN h
  ELSE IF shapes[i] = "absent" THEN BuildItems(h, d, shapes, n, i + 1)
  ELSE BuildItems(SetItem(BuildValue(h, shapes[i], n + 2 * i).heap, d, DictKeys[i],
                          BuildValue(h, shapes[i], n + 2 * i).cell),
                  d, shapes, n, i + 1)

BuildDict(h, shapes, n) ==
  [ heap |-> BuildItems(Append(h, [kind |-> "dict", keys |-> <<>>, vals |-> <<>>]),
                        Len(h) + 1, shapes, n, 1),
    addr |-> Len(h) + 1 ]

\* the addresses a value refers to directly
Refs(h, x) == { h[x].vals[i][2] : i \in { j \in DOMAIN h[x].vals : h[x].vals[j][1] = "ref" } }

\* the addresses reachable from the addresses of S in at most n steps
RECURSIVE Reach(_, _, _)
Reach(h, S, n) ==
  IF n = 0 THEN S
  ELSE Reach(h, S \cup UNION { Refs(h, x) : x \in S }, n - 1)

Reachable(h, S) == Reach(h, S, Len(h))

DictInit ==
  /\ vfield = <<>> /\ sfield_in = <<>> /\ num_rows = 0 /\ num_cols = 0
  /\ streamlength = 0 /\ use_periodic_BCs = FALSE
  /\ StreamIdle
  /\ PassIdle
  /\ ApiIdle
  /\ rng = 0 /\ seed_run = <<>>
  /\ IoIdle /\ H5Idle
  /\ \E sa \in [DOMAIN DictKeys -> ValueShapes], sb \in [DOMAIN DictKeys -> ValueShapes] :
       /\ heap = BuildDict(BuildDict(<<>>, sa, 0).heap, sb, 10).heap
       /\ md = [ pc |-> "start",
                 dict_a |-> BuildDict(<<>>, sa, 0).addr,
                 dict_b |-> BuildDict(BuildDict(<<>>, sa, 0).heap, sb, 10).addr,
                 merged_dict |-> 0,
                 heap0 |-> BuildDict(BuildDict(<<>>, sa, 0).heap, sb, 10).heap ]

DictFrame == <<inputVars, streamVars, passVars, apiVars, rngVars, ioVars, h5Vars>>
\* merged = merge_dicts(dict_a, dict_b)
MergeDicts ==
  /\ md.pc = "start"
  /\ heap' = merge_dicts(heap, md.dict_a, md.dict_b).heap
  /\ md' = [md EXCEPT !.pc = "merged",
                      !.merged_dict = merge_dicts(heap, md.dict_a, md.dict_b).addr]
  /\ UNCHANGED DictFrame

\* the value the caller puts into an object of the result
NewItem == <<"int", 99>>

\* h after the caller mutates the object at x in place: append to a list,
\* add to a set, set a key of a dict
Mutated(h, x) ==
  IF h[x].kind = "dict" THEN SetItem(h, x, "z", NewItem)
  ELSE [h EXCEPT ![x].vals = Append(@, NewItem)]

\* the caller mutates a list, set or dict it reaches through the result
MutateResult ==
  /\ md.pc = "merged"
  /\ \E x \in Reachable(heap, {md.merged_dict}) : heap' = Mutated(heap, x)
  /\ md' = [md EXCEPT !.pc = "mutated"]
  /\ UNCHANGED DictFrame

DictNext ==
  \/ MergeDicts
  \/ MutateResult

DictSpec == DictInit /\ [][DictNext]_vars

(***************************************************************************)
(* JsonSpec: jormi/ww_io/json_files.py on one path with the extension      *)
(* .json.  The content of the file is the JSON document json.dump wrote: a *)
(* store of objects of its own and the root value, with the keys of every  *)
(* dict in sorted order (sort_keys = True).  json.load builds new objects  *)
(* from the document.                                                      *)
(***************************************************************************)
\* all keys the dicts of the model use, in the order sort_keys puts them
JsonKeyOrder == <<"a", "b", "x", "y", "z">>

KeyIn(key, keys) == \E i \in DOMAIN keys : keys[i] = key
RECURSIVE SortedKeys(_, _)
SortedKeys(keys, i) ==
  IF i > Len(JsonKeyOrder) THEN <<>>
  ELSE (IF KeyIn(JsonKeyOrder[i], keys) THEN <<JsonKeyOrder[i]>> ELSE <<>>)
         \o SortedKeys(keys, i + 1)

\* the keys of an object in the order they are written
WrittenKeys(obj, sort) ==
  IF sort /\ obj.kind = "dict" THEN SortedKeys(obj.keys, 1) ELSE obj.keys
\* its values in that order
WrittenVals(obj, sort) ==
  IF sort /\ obj.kind = "dict"
  THEN [i \in 1 .. Len(obj.keys) |-> obj.vals[KeyIndex(obj, SortedKeys(obj.keys, 1)[i])]]
  ELSE obj.vals

\* the value c of the store hs rebuilt in the store hd: the store after and the
\* rebuilt value
RECURSIVE json_copy(_, _, _, _)
RECURSIVE json_copy_vals(_, _, _, _, _, _)
json_copy_vals(hs, vals, i, hd, acc, sort) ==
  IF i > Len(vals) THEN [heap |-> hd, vals |-> acc]
  ELSE json_copy_vals(hs, vals, i + 1, json_copy(hs, vals[i], hd, sort).heap,
                      Append(acc, json_copy(hs, vals[i], hd, sort).cell), sort)

json_copy_obj(obj, sort, r) ==
  [ heap |-> Append(r.heap, [kind |-> obj.kind, keys |-> WrittenKeys(obj, sort),
                             vals |-> r.vals]),
    cell |-> <<"ref", Len(r.heap) + 1>> ]

json_copy(hs, c, hd, sort) ==
  IF c[1] # "ref" THEN [heap |-> hd, cell |-> c]
  ELSE json_copy_obj(hs[c[2]], sort,
                     json_copy_vals(hs, WrittenVals(hs[c[2]], sort), 1, hd, <<>>, sort))

\* json.dump(obj, fp, sort_keys=True): the document written for the dict at d
json_dump(h, d) == json_copy(h, <<"ref", d>>, <<>>, TRUE)

\* copy.deepcopy(json.load(fp)): the objects of the document, built in h
json_load(doc, h) == json_copy(doc.heap, doc.cell, h, FALSE)

NoDocument == [heap |-> <<>>, cell |-> <<"int", 0>>]

\* the dicts a caller passes: under "a" any JSON value, under "b" a number or nothing
JsonShapes == { sh \in [DOMAIN DictKeys -> {"absent", "int", "list", "dict", "dict_y", "dict_of_list"}] :
                  sh[2] \in {"absent", "int"} }

\* merged_dict of _add_dict_to_json_file: old contains the heap after
\* read_json_file_into_dict and the dict it returned, d is input_dict
json_merge(old, d) == merge_dicts(old.heap, old.cell[2], d)

\* _add_dict_to_json_file: the document written for input_dict = inp
add_dict_to_json_file(file, inp) ==
  json_dump(json_merge(json_load(file.content, inp.heap), inp.addr).heap,
            json_merge(json_load(file.content, inp.heap), inp.addr).addr)

\* variant of new_json_content without the overwrite flag: an existing file is
\* always merged into
new_json_content_always_merges(file, inp, overwrite) ==
  IF file.exists
  THEN add_dict_to_json_file(file, inp)
  ELSE json_dump(inp.heap, inp.addr)

\* save_dict_to_json_file: the document in the file after the call
new_json_content(file, inp, overwrite) ==
  IF file.exists /\ ~overwrite
  THEN add_dict_to_json_file(file, inp)
  ELSE json_dump(inp.heap, inp.addr)

JsonInit ==
  /\ vfield = <<>> /\ sfield_in = <<>> /\ num_rows = 0 /\ num_cols = 0
  /\ streamlength = 0 /\ use_periodic_BCs = FALSE
  /\ StreamIdle
  /\ PassIdle
  /\ ApiIdle
  /\ rng = 0 /\ seed_run = <<>> /\ heap = <<>> /\ md = <<>>
  /\ csv_file = <<>> /\ csv_op = <<>> /\ H5Idle
  /\ json_file = [exists |-> FALSE, content |-> NoDocument]
  /\ json_op = [ calls |-> 0, last |-> "none", overwrite |-> FALSE,
                 prev |-> [exists |-> FALSE, content |-> NoDocument],
                 input |-> [heap |-> <<>>, addr |-> 0],
                 result |-> NoDocument, err |-> "none" ]

JsonFrame == <<inputVars, streamVars, passVars, apiVars, rngVars, dictVars,
               csv_file, csv_op, h5Vars>>

\* save_dict_to_json_file(file_path, input_dict, overwrite)
SaveDictToJsonFile(inp, overwrite) ==
  /\ json_op.calls < MaxJsonCalls
  /\ json_file' = [exists |-> TRUE, content |-> new_json_content(json_file, inp, overwrite)]
  /\ json_op' = [ calls |-> json_op.calls + 1, last |-> "save", overwrite |-> overwrite,
                  prev |-> json_file, input |-> inp, result |-> NoDocument,
                  err |-> "none" ]
  /\ UNCHANGED JsonFrame

\* read_json_file_into_dict(file_path)
ReadJsonFileIntoDict ==
  /\ json_op.last # "read"
  /\ json_op' = [json_op EXCEPT
                   !.last = "read",
                   !.result = IF json_file.exists THEN json_load(json_file.content, <<>>)
                              ELSE NoDocument,
                   !.err = IF json_file.exists THEN "none" ELSE "FileNotFoundError"]
  /\ UNCHANGED json_file
  /\ UNCHANGED JsonFrame

JsonNext ==
  \/ \E sh \in JsonShapes, overwrite \in BOOLEAN :
       SaveDictToJsonFile(BuildDict(<<>>, sh, 10 * (json_op.calls + 1)), overwrite)
  \/ ReadJsonFileIntoDict

JsonSpec == JsonInit /\ [][JsonNext]_vars

(***************************************************************************)
(* CsvSpec: jormi/ww_io/csv_files.py on one path.  A dataset is a dict of  *)
(* columns, [keys, cols]: cols[i] is the value stored under keys[i], a     *)
(* list ([sized |-> TRUE, items]) or a value without a length.  The file   *)
(* holds what csv.writer wrote: the header row and the data rows.          *)
(***************************************************************************)
Column(items) == [sized |-> TRUE, items |-> items]
NotSized == [sized |-> FALSE, items |-> <<>>]

ColumnIndex(ds, key) == CHOOSE i \in DOMAIN ds.keys : ds.keys[i] = key

\* len(column) for every column of the dataset
ColumnLengths(ds) == { Len(ds.cols[i].items) : i \in DOMAIN ds.cols }

SmallestOf(S) == CHOOSE n \in S : \A k \in S : n <= k

\* zip(*input_dict.values()): one row per index that every column has
ZipRows(ds) ==
  IF ds.cols = <<>> THEN <<>>
  ELSE [ r \in 1 .. SmallestOf(ColumnLengths(ds)) |->
           [ i \in 1 .. Len(ds.cols) |-> ds.cols[i].items[r] ] ]

\* variant of write_csv without the test of lines 68-73: the rows are written
\* whatever the lengths of the columns
write_csv_no_length_check(file, ds) ==
  IF \E i \in DOMAIN ds.cols : ~ds.cols[i].sized
  THEN [err |-> "TypeError", file |-> file]
  ELSE [err |-> "none",
        file |-> [exists |-> TRUE, header |-> ds.keys, rows |-> ZipRows(ds)]]

\* variant of write_csv that opens the file for writing before it tests the
\* lengths of the columns
write_csv_opens_first(file, ds) ==
  IF \E i \in DOMAIN ds.cols : ~ds.cols[i].sized
  THEN [err |-> "TypeError", file |-> [exists |-> TRUE, header |-> <<>>, rows |-> <<>>]]
  ELSE IF Cardinality(ColumnLengths(ds)) # 1
  THEN [err |-> "ValueError", file |-> [exists |-> TRUE, header |-> <<>>, rows |-> <<>>]]
  ELSE [err |-> "none",
        file |-> [exists |-> TRUE, header |-> ds.keys, rows |-> ZipRows(ds)]]

\* _write_csv(file_path, input_dict): the exception raised ("none" when it
\* returns) and the file after the call
write_csv(file, ds) ==
  IF \E i \in DOMAIN ds.cols : ~ds.cols[i].sized
  THEN [err |-> "TypeError", file |-> file]
  ELSE IF Cardinality(ColumnLengths(ds)) # 1
  THEN [err |-> "ValueError", file |-> file]
  ELSE [err |-> "none",
        file |-> [exists |-> TRUE, header |-> ds.keys, rows |-> ZipRows(ds)]]

\* read_csv_file_into_dict: one list per field name, one element per row
read_csv_file_into_dict(file) ==
  [ keys |-> file.header,
    cols |-> [ i \in 1 .. Len(file.header) |->
                 Column([ r \in 1 .. Len(file.rows) |-> file.rows[r][i] ]) ] ]

\* lines 86-93: the loop over the keys that already exist, from key n on, with
\* growth the value of growth_of_existing_columns so far (-1 for None): the
\* exception raised, or the final growth
RECURSIVE growth_of_existing_columns(_, _, _, _)
growth_of_existing_columns(existing, inp, n, growth) ==
  IF n > Len(inp.keys) THEN [err |-> "none", growth |-> growth]
  ELSE IF ~KeyIn(inp.keys[n], existing.keys)
  THEN growth_of_existing_columns(existing, inp, n + 1, growth)
  ELSE IF ~inp.cols[n].sized THEN [err |-> "TypeError", growth |-> growth]
  ELSE IF growth = -1
  THEN growth_of_existing_columns(existing, inp, n + 1, Len(inp.cols[n].items))
  ELSE IF Len(inp.cols[n].items) # growth THEN [err |-> "ValueError", growth |-> growth]
  ELSE growth_of_existing_columns(existing, inp, n + 1, growth)

\* lines 97-103: the loop over the new columns, from key n on
RECURSIVE check_new_columns(_, _, _, _)
check_new_columns(existing, inp, n, expected_final_column_length) ==
  IF n > Len(inp.keys) THEN "none"
  ELSE IF KeyIn(inp.keys[n], existing.keys)
  THEN check_new_columns(existing, inp, n + 1, expected_final_column_length)
  ELSE IF ~inp.cols[n].sized THEN "TypeError"
  ELSE IF Len(inp.cols[n].items) # expected_final_column_length THEN "ValueError"
  ELSE check_new_columns(existing, inp, n + 1, expected_final_column_length)

\* lines 105-108: existing columns extended, new columns added at the end
RECURSIVE apply_updates(_, _, _)
apply_updates(existing, inp, n) ==
  IF n > Len(inp.keys) THEN existing
  ELSE IF KeyIn(inp.keys[n], existing.keys)
  THEN apply_updates(
         [existing EXCEPT !.cols[ColumnIndex(existing, inp.keys[n])].items =
                            @ \o inp.cols[n].items],
         inp, n + 1)
  ELSE apply_updates([keys |-> Append(existing.keys, inp.keys[n]),
                      cols |-> Append(existing.cols, inp.cols[n])], inp, n + 1)

\* lines 109-115 for the updated dataset
update_csv_finish(file, final_dataset) ==
  IF Cardinality(ColumnLengths(final_dataset)) # 1
  THEN [err |-> "ValueError", file |-> file]
  ELSE write_csv(file, final_dataset)

\* lines 94-108 once the growth of the existing columns is known
update_csv_checked(file, existing, inp, g) ==
  IF g.err # "none" THEN [err |-> g.err, file |-> file]
  ELSE IF check_new_columns(existing, inp, 1,
            Len(existing.cols[1].items) + (IF g.growth = -1 THEN 0 ELSE g.growth)) # "none"
  THEN [err |-> check_new_columns(existing, inp, 1,
                  Len(existing.cols[1].items) + (IF g.growth = -1 THEN 0 ELSE g.growth)),
        file |-> file]
  ELSE update_csv_finish(file, apply_updates(existing, inp, 1))

\* _update_csv(file_path, input_dict)
update_csv(file, inp) ==
  update_csv_checked(file, read_csv_file_into_dict(file), inp,
                     growth_of_existing_columns(read_csv_file_into_dict(file), inp, 1, -1))

\* save_dict_to_csv_file(file_path, input_dict, overwrite): the exception
\* raised and the file after the call
save_dict_to_csv_file(path_ok, file, inp, overwrite) ==
  IF ~path_ok THEN [err |-> "ValueError", file |-> file]
  ELSE IF inp.bad_key THEN [err |-> "TypeError", file |-> file]
  ELSE IF file.exists /\ ~overwrite THEN update_csv(file, inp.dataset)
  ELSE write_csv(file, inp.dataset)

\* what a caller stores under a key: nothing, a number, or a list of 0 ..
\* MaxCsvColumnLen numbers
AbsentKey == -2
NumberValue == -1
CsvColumnShapes == {AbsentKey, NumberValue} \cup (0 .. MaxCsvColumnLen)
CsvKeys == <<"a", "b">>

CsvColumnOf(shape, v) ==
  IF shape = NumberValue THEN NotSized ELSE Column([i \in 1 .. shape |-> v])

RECURSIVE CsvDataset(_, _, _)
CsvDataset(sh, v, n) ==
  IF n > Len(CsvKeys) THEN [keys |-> <<>>, cols |-> <<>>]
  ELSE IF sh[n] = AbsentKey THEN CsvDataset(sh, v, n + 1)
  ELSE [ keys |-> <<CsvKeys[n]>> \o CsvDataset(sh, v, n + 1).keys,
         cols |-> <<CsvColumnOf(sh[n], v)>> \o CsvDataset(sh, v, n + 1).cols ]

\* the arguments of a call: input_dict, and whether it also has a key that is
\* not a string
CsvInputs(v) ==
  { [dataset |-> CsvDataset(sh, v, 1), bad_key |-> bad] :
      sh \in [DOMAIN CsvKeys -> CsvColumnShapes], bad \in BOOLEAN }

NoFile == [exists |-> FALSE, header |-> <<>>, rows |-> <<>>]

CsvInit ==
  /\ vfield = <<>> /\ sfield_in = <<>> /\ num_rows = 0 /\ num_cols = 0
  /\ streamlength = 0 /\ use_periodic_BCs = FALSE
  /\ StreamIdle
  /\ PassIdle
  /\ ApiIdle
  /\ rng = 0 /\ seed_run = <<>> /\ heap = <<>> /\ md = <<>>
  /\ json_file = <<>> /\ json_op = <<>> /\ H5Idle
  /\ csv_file \in {NoFile, [exists |-> TRUE, header |-> <<"a">>, rows |-> << <<0>> >>]}
  /\ \E ok \in BOOLEAN :
       csv_op = [ path_ok |-> ok, calls |-> 0, last |-> "none", overwrite |-> FALSE,
                  prev |-> csv_file,
                  input |-> [dataset |-> [keys |-> <<>>, cols |-> <<>>], bad_key |-> FALSE],
                  result |-> [keys |-> <<>>, cols |-> <<>>],
                  err |-> "none" ]

CsvFrame == <<inputVars, streamVars, passVars, apiVars, rngVars, dictVars,
              json_file, json_op, h5Vars>>

SaveDictToCsvFile(inp, overwrite) ==
  /\ csv_op.calls < MaxCsvCalls
  /\ csv_file' = save_dict_to_csv_file(csv_op.path_ok, csv_file, inp, overwrite).file
  /\ csv_op' = [csv_op EXCEPT
                  !.calls = @ + 1, !.last = "save", !.overwrite = overwrite,
                  !.prev = csv_file, !.input = inp,
                  !.result = [keys |-> <<>>, cols |-> <<>>],
                  !.err = save_dict_to_csv_file(csv_op.path_ok, csv_file, inp, overwrite).err]
  /\ UNCHANGED CsvFrame

\* read_csv_file_into_dict(file_path)
ReadCsvFileIntoDict ==
  /\ csv_op.last # "read"
  /\ csv_op' = [csv_op EXCEPT
                  !.last = "read",
                  !.result = IF csv_op.path_ok /\ csv_file.exists
                             THEN read_csv_file_into_dict(csv_file)
                             ELSE [keys |-> <<>>, cols |-> <<>>],
                  !.err = IF ~csv_op.path_ok THEN "ValueError"
                          ELSE IF ~csv_file.exists THEN "FileNotFoundError"
                          ELSE "none"]
  /\ UNCHANGED csv_file
  /\ UNCHANGED CsvFrame

CsvNext ==
  \/ \E inp \in CsvInputs(csv_op.calls + 1), overwrite \in BOOLEAN :
       SaveDictToCsvFile(inp, overwrite)
  \/ ReadCsvFileIntoDict

CsvSpec == CsvInit /\ [][CsvNext]_vars

(***************************************************************************)
(* H5Spec: bifrost, HDF5DataManager in memory.  All axes are in one axis   *)
(* group and all datasets in one dataset group, so an axis or a dataset is *)
(* identified by its name.  A numpy array is [shape, data] with data in    *)
(* row-major order; indices count from 0 as in numpy.  An AxisObject is    *)
(* [name, values, units, notes, global_ref]: units and notes are its       *)
(* private fields, global_ref is the name of the global axis it refers to  *)
(* or None.                                                                *)
(***************************************************************************)
MaxH5Adds == 2
MaxH5Updates == 1
MaxAxisValue == 1

AxisNames == {"x", "y"}
DatasetNames == {"d1", "d2"}
NOT_SPECIFIED == "not_specified"
None == "None"
nan == -1

NoArray == [shape |-> <<>>, data |-> <<>>]
NoAxis == [exists |-> FALSE, name |-> None, values |-> <<>>,
           units |-> NOT_SPECIFIED, notes |-> "", global_ref |-> None]
NoDataset == [exists |-> FALSE, name |-> None, values |-> NoArray,
              units |-> NOT_SPECIFIED, notes |-> "", list_axis_objs |-> <<>>]

Elements(s) == {s[i] : i \in 1..Len(s)}

RECURSIVE SortedSeqOf(_)
SortedSeqOf(S) ==
  IF S = {} THEN <<>>
  ELSE <<CHOOSE v \in S : \A w \in S : v <= w>>
         \o SortedSeqOf(S \ {CHOOSE v \in S : \A w \in S : v <= w})

\* numpy.unique: the sorted distinct values
unique(values) == SortedSeqOf(Elements(values))

\* AxisObject.add(values): the new self.values
AxisObject_add(self_values, values) == unique(self_values \o values)

\* variant of searchsorted that returns the position of each value in v, not
\* its place in a
searchsorted_own_position(a, v) == [i \in 1..Len(v) |-> i - 1]

\* numpy.searchsorted(a, v): for each v[i] the number of entries of a below it
searchsorted(a, v) ==
  [i \in 1..Len(v) |-> Cardinality({j \in 1..Len(a) : a[j] < v[i]})]

RECURSIVE Size(_)
Size(shape) == IF shape = <<>> THEN 1 ELSE Head(shape) * Size(Tail(shape))

\* the index tuple of the entry at offset n of a row-major array
RECURSIVE Unravel(_, _)
Unravel(n, shape) ==
  IF shape = <<>> THEN <<>>
  ELSE <<n \div Size(Tail(shape))>> \o Unravel(n % Size(Tail(shape)), Tail(shape))

\* the offset of the entry with index tuple idx
RECURSIVE Ravel(_, _)
Ravel(idx, shape) ==
  IF shape = <<>> THEN 0
  ELSE Head(idx) * Size(Tail(shape)) + Ravel(Tail(idx), Tail(shape))

\* numpy.full(shape, value)
full(shape, value) == [shape |-> shape, data |-> [n \in 1..Size(shape) |-> value]]

\* position (from 0) of the last entry of indices that equals j
LastAt(indices, j) ==
  (CHOOSE p \in 1..Len(indices) :
     indices[p] = j /\ \A q \in 1..Len(indices) : indices[q] = j => q <= p) - 1

\* dst[numpy.ix_(*list_indices)] = src
assign_ix(dst, list_indices, src) ==
  [dst EXCEPT !.data =
     [n \in 1..Len(dst.data) |->
        IF \A k \in 1..Len(list_indices) :
             Unravel(n - 1, dst.shape)[k] \in Elements(list_indices[k])
        THEN src.data[1 + Ravel([k \in 1..Len(list_indices) |->
                                   LastAt(list_indices[k], Unravel(n - 1, dst.shape)[k])],
                                src.shape)]
        ELSE dst.data[n]]]

\* the axes of the dataset after obj_axis_old.add(axis_values_in) over
\* zip(self.list_axis_objs, list_axis_values_in)
axes_updated(list_axis_objs, list_axis_values_in) ==
  [k \in 1..Len(list_axis_objs) |->
     IF k <= Len(list_axis_values_in)
     THEN [list_axis_objs[k] EXCEPT !.values = AxisObject_add(@, list_axis_values_in[k])]
     ELSE list_axis_objs[k]]

updated_dataset_shape(list_axis_objs) ==
  [k \in 1..Len(list_axis_objs) |-> Len(list_axis_objs[k].values)]

\* the indices, in the updated axes, of the given axis values
dataset_indices(list_axis_objs, list_axis_values) ==
  [k \in 1..Len(list_axis_values) |->
     searchsorted(list_axis_objs[k].values, list_axis_values[k])]

old_axis_values(list_axis_objs) ==
  [k \in 1..Len(list_axis_objs) |-> list_axis_objs[k].values]

\* dataset_values_updated of reindex, given the updated axes
dataset_values_updated(self, updated, list_axis_values_in, dataset_values_in) ==
  IF dataset_values_in = NoArray
  THEN assign_ix(full(updated_dataset_shape(updated), nan),
                 dataset_indices(updated, old_axis_values(self.list_axis_objs)),
                 self.values)
  ELSE assign_ix(assign_ix(full(updated_dataset_shape(updated), nan),
                           dataset_indices(updated, old_axis_values(self.list_axis_objs)),
                           self.values),
                 dataset_indices(updated, list_axis_values_in),
                 dataset_values_in)

\* DatasetObject.reindex(list_axis_values_in, dataset_values_in)
reindex(self, list_axis_values_in, dataset_values_in) ==
  IF Len(self.values.shape) # Len(list_axis_values_in)
  THEN [dataset |-> self, err |-> "ValueError"]
  ELSE [dataset |->
          [self EXCEPT
             !.list_axis_objs = axes_updated(self.list_axis_objs, list_axis_values_in),
             !.values = dataset_values_updated(
                          self, axes_updated(self.list_axis_objs, list_axis_values_in),
                          list_axis_values_in, dataset_values_in)],
        err |-> "none"]

\* AxisObject.units and AxisObject.notes (the properties)
axis_units(st, axis) ==
  IF axis.global_ref # None THEN st.dict_global_axes[axis.global_ref].units
  ELSE axis.units

axis_notes(st, axis) ==
  IF axis.global_ref # None THEN st.dict_global_axes[axis.global_ref].notes
  ELSE axis.notes

\* AxisObject.get_dict
axis_get_dict(st, axis) ==
  [name |-> axis.name, values |-> axis.values,
   units |-> axis_units(st, axis), notes |-> axis_notes(st, axis)]

\* DatasetObject.get_dict
dataset_get_dict(st, dataset) ==
  [name |-> dataset.name, values |-> dataset.values,
   units |-> dataset.units, notes |-> dataset.notes,
   list_axis_dicts |-> [k \in 1..Len(dataset.list_axis_objs) |->
                          axis_get_dict(st, dataset.list_axis_objs[k])]]

NoneDict == [name |-> None, values |-> NoArray, units |-> NOT_SPECIFIED,
             notes |-> "", list_axis_dicts |-> <<>>]

\* HDF5DataManager.get_local_dataset
get_local_dataset(st, dataset_name) ==
  IF ~st.dict_datasets[dataset_name].exists THEN NoneDict
  ELSE dataset_get_dict(st, st.dict_datasets[dataset_name])

\* HDF5DataManager._validate_dimensions: the exception it raises, if any
validate_dimensions(dataset_values, list_axis_dicts) ==
  IF Len(dataset_values.shape) < Len(list_axis_dicts) THEN "IndexError"
  ELSE IF \/ Len(dataset_values.shape) # Len(list_axis_dicts)
          \/ \E k \in 1..Len(list_axis_dicts) :
               Len(list_axis_dicts[k].values) # dataset_values.shape[k]
       THEN "ValueError"
       ELSE "none"

\* one iteration of the loop over list_axis_dicts of add; acc holds the
\* manager's dicts and the two lists the loop builds
add_axis(acc, bool_init_dataset, dataset_name, dict_axis) ==
  IF ~acc.dict_global_axes[dict_axis.name].exists
  THEN IF bool_init_dataset
       THEN [acc EXCEPT
               !.dict_axis_dependencies[dict_axis.name] =
                  IF dataset_name \in Elements(@) THEN @ ELSE Append(@, dataset_name),
               !.list_axis_objs = Append(@,
                  [name |-> dict_axis.name, values |-> dict_axis.values,
                   units |-> dict_axis.units, notes |-> dict_axis.notes,
                   global_ref |-> dict_axis.name]),
               !.dict_global_axes[dict_axis.name] =
                  [exists |-> TRUE, name |-> dict_axis.name, values |-> dict_axis.values,
                   units |-> dict_axis.units, notes |-> dict_axis.notes,
                   global_ref |-> None]]
       ELSE \* obj_axis_local was never bound in this call
            [acc EXCEPT
               !.dict_axis_dependencies[dict_axis.name] =
                  IF dataset_name \in Elements(@) THEN @ ELSE Append(@, dataset_name),
               !.list_axis_values = Append(@, dict_axis.values),
               !.err = "UnboundLocalError"]
  ELSE [acc EXCEPT
          !.dict_axis_dependencies[dict_axis.name] =
             IF dataset_name \in Elements(@) THEN @ ELSE Append(@, dataset_name),
          !.list_axis_objs =
             IF bool_init_dataset
             THEN Append(@, [name |-> dict_axis.name, values |-> dict_axis.values,
                             units |-> dict_axis.units, notes |-> dict_axis.notes,
                             global_ref |-> None])
             ELSE @,
          !.list_axis_values =
             IF bool_init_dataset THEN @ ELSE Append(@, dict_axis.values),
          !.dict_global_axes[dict_axis.name] =
             [@ EXCEPT
                !.values = AxisObject_add(@, dict_axis.values),
                !.units = IF dict_axis.units # NOT_SPECIFIED THEN dict_axis.units ELSE @,
                !.notes = IF Len(dict_axis.notes) > 0 THEN dict_axis.notes ELSE @]]

RECURSIVE add_axes(_, _, _, _, _)
add_axes(acc, bool_init_dataset, dataset_name, list_axis_dicts, k) ==
  IF k > Len(list_axis_dicts) \/ acc.err # "none" THEN acc
  ELSE add_axes(add_axis(acc, bool_init_dataset, dataset_name, list_axis_dicts[k]),
                bool_init_dataset, dataset_name, list_axis_dicts, k + 1)

\* the end of add, after the loop over the axes
add_dataset(st, dict_dataset, bool_init_dataset, acc) ==
  IF acc.err # "none"
  THEN [st |-> [st EXCEPT !.dict_global_axes = acc.dict_global_axes,
                          !.dict_axis_dependencies = acc.dict_axis_dependencies],
        err |-> acc.err]
  ELSE IF bool_init_dataset
  THEN [st |-> [st EXCEPT
                  !.dict_global_axes = acc.dict_global_axes,
                  !.dict_axis_dependencies = acc.dict_axis_dependencies,
                  !.dict_datasets[dict_dataset.name] =
                     [exists |-> TRUE, name |-> dict_dataset.name,
                      values |-> dict_dataset.values, units |-> dict_dataset.units,
                      notes |-> dict_dataset.notes,
                      list_axis_objs |-> acc.list_axis_objs]],
        err |-> "none"]
  ELSE [st |-> [st EXCEPT
                  !.dict_global_axes = acc.dict_global_axes,
                  !.dict_axis_dependencies = acc.dict_axis_dependencies,
                  !.dict_datasets[dict_dataset.name] =
                     reindex(@, acc.list_axis_values, dict_dataset.values).dataset],
        err |-> reindex(st.dict_datasets[dict_dataset.name], acc.list_axis_values,
                        dict_dataset.values).err]

\* HDF5DataManager.add(dict_dataset, list_axis_dicts)
add(st, dict_dataset, list_axis_dicts) ==
  IF validate_dimensions(dict_dataset.values, list_axis_dicts) # "none"
  THEN [st |-> st, err |-> validate_dimensions(dict_dataset.values, list_axis_dicts)]
  ELSE add_dataset(st, dict_dataset, ~st.dict_datasets[dict_dataset.name].exists,
                   add_axes([dict_global_axes |-> st.dict_global_axes,
                             dict_axis_dependencies |-> st.dict_axis_dependencies,
                             list_axis_objs |-> <<>>, list_axis_values |-> <<>>,
                             err |-> "none"],
                            ~st.dict_datasets[dict_dataset.name].exists,
                            dict_dataset.name, list_axis_dicts, 1))

\* HDF5DataManager.update_global_axis_metadata(axis_group, axis_name, units, notes)
update_global_axis_metadata(st, axis_name, units, notes) ==
  IF ~st.dict_global_axes[axis_name].exists THEN [st |-> st, err |-> "ValueError"]
  ELSE [st |-> [st EXCEPT
                  !.dict_global_axes[axis_name].units = IF units # None THEN units ELSE @,
                  !.dict_global_axes[axis_name].notes = IF notes # None THEN notes ELSE @],
        err |-> "none"]

\* what the callers pass: axis dicts made by AxisObject.create_dict_inputs
\* (values not empty, increasing, without duplicates) and dataset dicts
\* made by DatasetObject.create_dict_inputs
AxisValueLists == {SortedSeqOf(S) : S \in (SUBSET (0..MaxAxisValue)) \ {{}}}

AxisMetadata == {[units |-> NOT_SPECIFIED, notes |-> ""],
                 [units |-> "dimensionless", notes |-> "original axis"]}

AxisDicts ==
  {[name |-> n, values |-> v, units |-> md0.units, notes |-> md0.notes] :
     n \in AxisNames, v \in AxisValueLists, md0 \in AxisMetadata}

PlainAxisDicts == {a \in AxisDicts : a.units = NOT_SPECIFIED}

AxisDictLists ==
  {<<a>> : a \in AxisDicts} \cup {<<a, b>> : a \in PlainAxisDicts, b \in PlainAxisDicts}

AxisLengths(list_axis_dicts) ==
  [k \in 1..Len(list_axis_dicts) |-> Len(list_axis_dicts[k].values)]

\* the shapes of the dataset values handed in with the axes: the lengths of
\* the axes, one entry too many along the first axis, or one dimension only
\* for two axes
DatasetShapes(list_axis_dicts) ==
  {AxisLengths(list_axis_dicts),
   [AxisLengths(list_axis_dicts) EXCEPT ![1] = @ + 1],
   <<Len(list_axis_dicts[1].values)>>}

\* the values of the call-th add: every entry is different from the entries
\* of the other adds
DatasetValues(call, shape) ==
  [shape |-> shape, data |-> [n \in 1..Size(shape) |-> 10 * call + n - 1]]

DatasetDict(dataset_name, call, shape) ==
  [name |-> dataset_name, values |-> DatasetValues(call, shape),
   units |-> NOT_SPECIFIED, notes |-> ""]

\* the axis values of every entry of the input array and the entry
Supplied(dict_dataset, list_axis_dicts) ==
  {<<[k \in 1..Len(list_axis_dicts) |->
        list_axis_dicts[k].values[Unravel(n - 1, dict_dataset.values.shape)[k] + 1]],
     dict_dataset.values.data[n]>> : n \in 1..Len(dict_dataset.values.data)}

H5Init ==
  /\ vfield = <<>> /\ sfield_in = <<>> /\ num_rows = 0 /\ num_cols = 0
  /\ streamlength = 0 /\ use_periodic_BCs = FALSE
  /\ StreamIdle
  /\ PassIdle
  /\ ApiIdle
  /\ rng = 0 /\ seed_run = <<>> /\ heap = <<>> /\ md = <<>>
  /\ IoIdle
  /\ h5 = [dict_global_axes |-> [n \in AxisNames |-> NoAxis],
           dict_datasets |-> [d \in DatasetNames |-> NoDataset],
           dict_axis_dependencies |-> [n \in AxisNames |-> <<>>]]
  /\ h5_op = [adds |-> 0, updates |-> 0, last |-> "none", err |-> "none",
              dataset_name |-> None, list_axis_dicts |-> <<>>,
              axis_name |-> None, units |-> None, notes |-> None,
              result |-> NoneDict,
              supplied |-> [d \in DatasetNames |-> {}]]

H5Frame == <<inputVars, streamVars, passVars, apiVars, rngVars, dictVars, ioVars>>

\* obj_h5dm.add(dict_dataset, list_axis_dicts)
H5Add(dict_dataset, list_axis_dicts) ==
  /\ h5_op.adds < MaxH5Adds
  /\ h5' = add(h5, dict_dataset, list_axis_dicts).st
  /\ h5_op' = [h5_op EXCEPT
                 !.adds = @ + 1, !.last = "add",
                 !.err = add(h5, dict_dataset, list_axis_dicts).err,
                 !.dataset_name = dict_dataset.name,
                 !.list_axis_dicts = list_axis_dicts,
                 !.axis_name = None, !.units = None, !.notes = None,
                 !.result = NoneDict,
                 !.supplied[dict_dataset.name] =
                    IF add(h5, dict_dataset, list_axis_dicts).err # "none" THEN @
                    ELSE {p \in @ : \A q \in Supplied(dict_dataset, list_axis_dicts) :
                                      q[1] # p[1]}
                           \cup Supplied(dict_dataset, list_axis_dicts)]
  /\ UNCHANGED H5Frame

\* obj_h5dm.update_global_axis_metadata(axis_group, axis_name, units, notes)
UpdateGlobalAxisMetadata(axis_name, units, notes) ==
  /\ h5_op.updates < MaxH5Updates
  /\ h5' = update_global_axis_metadata(h5, axis_name, units, notes).st
  /\ h5_op' = [h5_op EXCEPT
                 !.updates = @ + 1, !.last = "update_global_axis_metadata",
                 !.err = update_global_axis_metadata(h5, axis_name, units, notes).err,
                 !.dataset_name = None, !.list_axis_dicts = <<>>,
                 !.axis_name = axis_name, !.units = units, !.notes = notes,
                 !.result = NoneDict]
  /\ UNCHANGED H5Frame

\* obj_h5dm.get_local_dataset(dataset_group, dataset_name)
GetLocalDataset(dataset_name) ==
  /\ h5_op.last # "get_local_dataset"
  /\ h5_op' = [h5_op EXCEPT
                 !.last = "get_local_dataset", !.err = "none",
                 !.dataset_name = dataset_name,
                 !.result = get_local_dataset(h5, dataset_name)]
  /\ UNCHANGED h5
  /\ UNCHANGED H5Frame

H5Next ==
  \/ \E d \in DatasetNames, l \in AxisDictLists :
       \E shape \in DatasetShapes(l) : H5Add(DatasetDict(d, h5_op.adds + 1, shape), l)
  \/ \E n \in AxisNames, units \in {None, "t_turb"}, notes \in {None, "updated notes"} :
       UpdateGlobalAxisMetadata(n, units, notes)
  \/ \E d \in DatasetNames : GetLocalDataset(d)

H5Spec == H5Init /\ [][H5Next]_vars

(***************************************************************************)
(* Properties.                                                             *)
(***************************************************************************)
PassDone == lic_pc \in {"returned", "raised"}

\* the result of the streamline seeded at (r, c) in direction d on the inputs
Streamline(r, c, d) ==
  advect_streamline(vfield, sfield_in, num_rows, num_cols, r, c, d,
                    streamlength, use_periodic_BCs)

\* what the serial loop body computes for pixel (r, c) on the inputs
SerialAt(r, c) ==
  serial_pixel(vfield, sfield_in, num_rows, num_cols, streamlength,
               use_periodic_BCs, r, c)

\* what the column loop of a row task computes for pixel (r, c) on the inputs
RowTaskAt(r, c) ==
  row_pixel(vfield, sfield_in, num_rows, num_cols, streamlength,
            use_periodic_BCs, r, c)

Pixels == Rows(num_rows) \X Cols(num_cols)

\* C1: the serial and the parallel strategy produce the same outcome on the
\* same inputs: a finished pass of either strategy has raised exactly when a
\* streamline of some pixel raises, and otherwise its output holds, at every
\* pixel (r, c), the value the serial loop body computes from the forward and
\* the backward streamline of (r, c) -- whatever the number of workers and the
\* order in which the row tasks ran.
C1_SerialParallelSameOutput ==
  PassDone =>
    /\ (lic_pc = "raised") = (\E p \in Pixels : SerialAt(p[1], p[2]).raised)
    /\ lic_pc = "returned" =>
         \A p \in Pixels : sfield_out[p[1]][p[2]] = SerialAt(p[1], p[2]).value

C1_Witness ==
  /\ use_parallel /\ cpu_count = 2 /\ lic_pc = "returned"
  /\ num_rows = 2 /\ num_cols = 2 /\ streamlength >= 2
  /\ \A p \in Pixels : sfield_out[p[1]][p[2]] # Zero
  /\ sfield_out[0] # sfield_out[1]

\* C2: in a parallel pass every row belongs to exactly one queued task, a
\* finished task returned the values of its own rows tagged with their row
\* index, no row of sfield_out is ever written twice, and after the pass every
\* row r of sfield_out has been written exactly once and holds the values of
\* the task of row r, for every order of starts and completions.
C2_EachRowFromItsTask ==
  use_parallel =>
    /\ lic_pc \notin {"par_start", "par_try"} =>
         \A r \in Rows(num_rows) :
           Cardinality({k \in DOMAIN chunks : r \in ChunkRows(k, num_rows, cpu_count)}) = 1
    /\ \A k \in DOMAIN chunks :
         chunks[k] = "done" =>
           /\ Len(chunk_out[k]) = Cardinality(ChunkRows(k, num_rows, cpu_count))
           /\ \A i \in 1 .. Len(chunk_out[k]) :
                /\ chunk_out[k][i][1] \in ChunkRows(k, num_rows, cpu_count)
                /\ \A j \in 1 .. Len(chunk_out[k]) :
                     i < j => chunk_out[k][i][1] < chunk_out[k][j][1]
                /\ \A c \in Cols(num_cols) :
                     chunk_out[k][i][2][c] = RowTaskAt(chunk_out[k][i][1], c).value
    /\ \A r \in Rows(num_rows) : writes[r] <= 1
    /\ lic_pc = "returned" =>
         \A r \in Rows(num_rows) :
           /\ writes[r] = 1
           /\ \A c \in Cols(num_cols) : sfield_out[r][c] = RowTaskAt(r, c).value

C2_Witness ==
  /\ use_parallel /\ cpu_count = 2 /\ lic_pc = "returned"
  /\ num_rows = 2 /\ Len(results) = 2
  /\ results[1][1] = 0 /\ results[2][1] = 1
  /\ writes = [r \in Rows(num_rows) |-> 1]
  /\ sfield_out[0] # sfield_out[1]
  /\ sfield_out[1] # [c \in Cols(num_cols) |-> Zero]

AnyChunkFailed == \E k \in DOMAIN chunks : chunks[k] = "failed"
NoRowWritten ==
  /\ \A r \in Rows(num_rows) : writes[r] = 0
  /\ sfield_out = ZeroField(num_rows, num_cols)

\* C3: once a row task of a parallel pass has raised, the pass never assembles
\* and never returns: no row of sfield_out is written and the pass ends by
\* raising; rows are written only when every task has completed successfully;
\* and a finished task, failed or not, is never run again.
C3_TaskFailureFailsPass ==
  /\ [](use_parallel /\ AnyChunkFailed =>
          /\ lic_pc \in {"par_wait", "par_finally", "raised"}
          /\ NoRowWritten)
  /\ [](use_parallel /\ ~NoRowWritten =>
          \A k \in DOMAIN chunks : chunks[k] = "done")
  /\ [][\A k \in DOMAIN chunks :
          chunks[k] \in {"done", "failed"} =>
            /\ k \in DOMAIN chunks'
            /\ chunks'[k] = chunks[k]
            /\ chunk_out'[k] = chunk_out[k]]_vars

C3_Witness ==
  /\ use_parallel /\ lic_pc = "raised" /\ lic_err = "ValueError"
  /\ \E k \in DOMAIN chunks : chunks[k] = "failed"
  /\ \E k \in DOMAIN chunks : chunks[k] = "done" /\ chunk_out[k] # <<>>
  /\ NoRowWritten

\* the combined sum and weight of the two streamlines of pixel p
CombinedSum(p) ==
  Add(Streamline(p[1], p[2], 1).weighted_sum, Streamline(p[1], p[2], -1).weighted_sum)
CombinedWeight(p) ==
  Add(Streamline(p[1], p[2], 1).total_weight, Streamline(p[1], p[2], -1).total_weight)

\* (forward_sum + backward_sum) / (forward_weight + backward_weight) as a
\* float32 when the combined weight is > 0, else exactly 0.0
PixelFormula(p) ==
  IF Less(Zero, CombinedWeight(p))
  THEN ToFloat32(Div(CombinedSum(p), CombinedWeight(p)))
  ELSE Zero

\* the pixels the serial loop has stored so far
SerialStored ==
  { p \in Pixels : p[1] < row_index \/ (p[1] = row_index /\ p[2] < col_index) }

\* C7: every pixel value stored by the serial loop, returned by a row task or
\* assembled into the output of a parallel pass is
\* (forward_sum + backward_sum) / (forward_weight + backward_weight) when the
\* combined weight of the two streamlines is > 0 and exactly 0.0 otherwise
\* (never the NaN of a division 0 / 0).
C7_PixelIsNormalisedSum ==
  /\ ~use_parallel /\ lic_pc \in {"serial_loop", "returned", "raised"} =>
       \A p \in SerialStored : sfield_out[p[1]][p[2]] = PixelFormula(p)
  /\ use_parallel =>
       /\ \A k \in DOMAIN chunks : \A i \in DOMAIN chunk_out[k] :
            \A c \in Cols(num_cols) :
              chunk_out[k][i][2][c] = PixelFormula(<<chunk_out[k][i][1], c>>)
       /\ lic_pc = "returned" =>
            \A p \in Pixels : sfield_out[p[1]][p[2]] = PixelFormula(p)

C7_Witness ==
  /\ ~use_parallel /\ lic_pc = "returned" /\ streamlength >= 2
  /\ \E p \in Pixels : CombinedWeight(p) = Zero /\ sfield_out[p[1]][p[2]] = Zero
  /\ \E p \in Pixels : /\ Less(IntVal(1), CombinedWeight(p))
                       /\ sfield_out[p[1]][p[2]] # Zero
                       /\ sfield_out[p[1]][p[2]] # CombinedSum(p)

ZeroVField ==
  \A k \in 0 .. 1 : \A r \in Rows(num_rows) : \A c \in Cols(num_cols) :
    vfield[k][r][c] = Zero

\* C8: on a vector field that is zero everywhere, every streamline of every
\* pixel, in both directions, stops at step 0 with
\* (weighted_sum, total_weight) = (0, 0), the pass does not raise, and the
\* output is 0.0 at every pixel at every moment of the pass, for every scalar
\* field, streamlength and boundary mode.
C8_ZeroFieldGivesZero ==
  ZeroVField =>
    /\ \A p \in Pixels : \A d \in {1, -1} :
         /\ Streamline(p[1], p[2], d).pc = "returned"
         /\ Streamline(p[1], p[2], d).step = 0
         /\ Streamline(p[1], p[2], d).weighted_sum = Zero
         /\ Streamline(p[1], p[2], d).total_weight = Zero
         /\ streamlength > 0 => Streamline(p[1], p[2], d).exit = "zero"
    /\ lic_pc # "raised"
    /\ sfield_out = ZeroField(num_rows, num_cols)

C8_Witness ==
  /\ ZeroVField /\ lic_pc = "returned" /\ use_periodic_BCs
  /\ num_rows = 2 /\ num_cols = 2 /\ streamlength >= 2
  /\ sfield_in[1][1] = IntVal(4)
  /\ sfield_out = ZeroField(num_rows, num_cols)

\* the vector sampled at the current position of the streamline sl
SampledHere ==
  interpolate_bilinear(vfield, num_rows, num_cols, sl.row_float, sl.col_float)
SampleNotFinite ==
  /\ sl.pc = "loop" /\ IsFin(sl.row_float) /\ IsFin(sl.col_float)
  /\ ~IsFin(SampledHere.comp_col) \/ ~IsFin(SampledHere.comp_row)

\* C9: an iteration of advect_streamline that samples a vector with a NaN or
\* infinite component ends the streamline: the call returns the sums
\* accumulated before that iteration, adds no contribution and does not raise.
C9_NonFiniteSampleHalts ==
  [][SampleNotFinite =>
       /\ sl'.pc = "returned"
       /\ sl'.weighted_sum = sl.weighted_sum
       /\ sl'.total_weight = sl.total_weight]_vars

\* C10: every index used by an iteration of advect_streamline is inside the
\* grid: row_low, row_high (= min(row_low + 1, num_rows - 1)), col_low,
\* col_high (= min(col_low + 1, num_cols - 1)) of interpolate_bilinear and
\* row_int, col_int into sfield_in; no iteration raises an IndexError.
C10_IndicesInsideGrid ==
  /\ sl.exit # "IndexError"
  /\ sl.vidx # <<>> =>
       /\ sl.vidx[1] \in Rows(num_rows) /\ sl.vidx[2] \in Rows(num_rows)
       /\ sl.vidx[3] \in Cols(num_cols) /\ sl.vidx[4] \in Cols(num_cols)
       /\ sl.vidx[2] = MinOf(sl.vidx[1] + 1, num_rows - 1)
       /\ sl.vidx[4] = MinOf(sl.vidx[3] + 1, num_cols - 1)
  /\ sl.sidx # <<>> =>
       /\ sl.sidx[1] \in Rows(num_rows)
       /\ sl.sidx[2] \in Cols(num_cols)

C10_Witness ==
  /\ sl.step >= 2 /\ use_periodic_BCs /\ num_rows = 2 /\ num_cols = 2
  /\ sl.vidx # <<>> /\ sl.sidx # <<>>
  /\ sl.vidx[1] = 1 /\ sl.vidx[2] = 1
  /\ sl.vidx[3] = 1 /\ sl.vidx[4] = 1
  /\ ~IsFin(sl.row_float) \/ sl.row_float[3] > 1 \/ sl.col_float[3] > 1

\* the number of convolution passes performed so far by the API call
LicPasses == Cardinality({i \in DOMAIN api_st.log : api_st.log[i] = "lic"})
Rejected == LicPasses = 0 /\ api_st.pc # "returned"

\* C4: a call whose effective streamlength (explicit or defaulted) is below 5
\* is rejected: it performs no convolution pass and does not return a field.
C4_ShortStreamlengthRejected ==
  (api_st.streamlength_set /\ api_st.streamlength < MinStreamlength) => Rejected

\* C5: a call whose streamlength is at least half of the smaller grid
\* dimension is rejected before any pass.
C5_LongStreamlengthRejected ==
  (api_st.streamlength_set
     /\ 2 * api_st.streamlength >= MinOf(api.shape[1], api.shape[2])) => Rejected

\* C6: a vector field without exactly 2 components, or a supplied scalar field
\* whose shape is not (num_rows, num_cols), is rejected before any pass, for
\* compute_lic and for compute_lic_with_postprocessing with either backend.
C6_BadShapesRejected ==
  (api.num_vcomps # 2 \/ (api.sfield_given /\ ~api.sfield_shape_ok)) => Rejected

\* the position (row, col) lies in [0, num_rows) x [0, num_cols)
InsideGrid(row, col) ==
  /\ IsFin(row) /\ 0 <= row[2] /\ row[2] < num_rows * row[3]
  /\ IsFin(col) /\ 0 <= col[2] /\ col[2] < num_cols * col[3]

\* the vector field holds the same non-zero finite vector in every cell
ConstantNonZeroField ==
  /\ \A k \in 0 .. 1 : \A r \in Rows(num_rows) : \A c \in Cols(num_cols) :
       vfield[k][r][c] = vfield[k][0][0] /\ IsFin(vfield[k][0][0])
  /\ vfield[0][0][0] # Zero \/ vfield[1][0][0] # Zero

\* the sum of the taper weights of the steps k .. n - 1 of a streamline of length L
RECURSIVE TaperSum(_, _, _)
TaperSum(L, k, n) ==
  IF k >= n THEN Zero
  ELSE Add(taper_pixel_contribution(L, k), TaperSum(L, k + 1, n))

\* C11: with periodic boundaries in a constant non-zero vector field a
\* streamline never stops early: after every advance its position is back
\* inside the grid (an advance past an edge re-enters at the opposite edge),
\* it performs streamlength steps, and it returns the same number of steps and
\* the same total_weight -- the sum of all taper weights -- as the streamline
\* seeded at any other pixel, edge or interior.
C11_PeriodicReentry ==
  (use_periodic_BCs /\ ConstantNonZeroField) =>
    /\ sl.pc \in {"loop", "returned"}
    /\ InsideGrid(sl.row_float, sl.col_float)
    /\ sl.pc = "returned" =>
         /\ sl.step = streamlength
         /\ sl.total_weight = TaperSum(streamlength, 0, streamlength)
         /\ \A p \in Pixels :
              /\ Streamline(p[1], p[2], dir_sgn).step = sl.step
              /\ Streamline(p[1], p[2], dir_sgn).total_weight = sl.total_weight

C11_Witness ==
  /\ use_periodic_BCs /\ ConstantNonZeroField
  /\ num_rows = 3 /\ num_cols = 3 /\ streamlength >= 3
  /\ start_row = 0 /\ start_col = 1
  /\ Less(Mul(vfield[1][0][0], IntVal(dir_sgn)), Zero)
  /\ sl.pc = "returned" /\ sl.step = streamlength
  /\ Less(IntVal(1), sl.total_weight)
  /\ Streamline(1, 1, dir_sgn).total_weight = sl.total_weight

\* C12: with open boundaries a streamline never continues from a position
\* outside the grid: the advance that leaves [0, num_rows) x [0, num_cols) ends
\* it at that step, before the step's contribution is added, and the
\* total_weight it returns is the sum of the taper weights of the steps before,
\* strictly less than that of a full traversal of streamlength steps (the same
\* streamline with periodic boundaries).
C12_OpenBoundaryCutsShort ==
  ~use_periodic_BCs =>
    /\ InsideGrid(sl.row_float, sl.col_float) \/ sl.exit = "left"
    /\ sl.exit = "left" =>
         /\ sl.pc = "returned"
         /\ ~InsideGrid(sl.row_float, sl.col_float)
         /\ sl.step < streamlength
         /\ sl.total_weight = TaperSum(streamlength, 0, sl.step)
         /\ Less(sl.total_weight, TaperSum(streamlength, 0, streamlength))
         /\ ConstantNonZeroField =>
              Less(sl.total_weight,
                   advect_streamline(vfield, sfield_in, num_rows, num_cols, start_row,
                                     start_col, dir_sgn, streamlength, TRUE).total_weight)

C12_Witness ==
  /\ ~use_periodic_BCs /\ ConstantNonZeroField
  /\ sl.exit = "left" /\ sl.step >= 2 /\ streamlength >= 3
  /\ Less(Zero, sl.total_weight)

\* the scalar field holds the same value in every cell
UniformSField ==
  \A r \in Rows(num_rows) : \A c \in Cols(num_cols) : sfield_in[r][c] = sfield_in[0][0]

C14_OutputHasInputShape ==
  api_st.pc = "returned" => api_st.sfield = api.shape

C14_Witness ==
  /\ api_st.pc = "returned" /\ api.backend = "rust" /\ api.use_periodic_BCs
  /\ ~api.streamlength_given /\ api_st.streamlength >= 1
  /\ \E i \in DOMAIN api_st.log : api_st.log[i] = "pad"
  /\ \E i \in DOMAIN api_st.log : api_st.log[i] = "crop"
  /\ api_st.sfield = api.shape

\* C16: the first pass of the first cycle takes the seed or supplied field,
\* within a cycle every pass takes the output of the pass before, and the
\* first pass of cycle k+1 takes the output of cycle k: the field after cycle
\* k's passes and its per-cycle post-processing, high-pass filter included.
C16_CycleOutputFeedsNextCycle ==
  \A i \in DOMAIN api_st.passes :
    /\ (api_st.passes[i].pass = 0 /\ api_st.passes[i].cycle = 0) =>
         /\ api_st.passes[i].input[1] \in {"seed", "given"}
         /\ \A j \in DOMAIN api_st.passes[i].input : api_st.passes[i].input[j] # "lic"
    /\ api_st.passes[i].pass >= 1 =>
         api_st.passes[i].input = api_st.passes[i - 1].output
    /\ (api_st.passes[i].pass = 0 /\ api_st.passes[i].cycle >= 1) =>
         api_st.passes[i].input = api_st.cycle_out[api_st.passes[i].cycle]

\* the number of entries x of the sequence seq, and of those before position i
Count(seq, x) == Cardinality({j \in DOMAIN seq : seq[j] = x})
CountBefore(seq, x, i) == Cardinality({j \in DOMAIN seq : j < i /\ seq[j] = x})

\* C17: with either backend, the field at the end of cycle k has been divided
\* by its maximum absolute value once in every cycle so far, after the cycle's
\* passes and before the cycle's high-pass filter.
C17_NormalisedEveryCycle ==
  \A k \in DOMAIN api_st.cycle_out :
    /\ Count(api_st.cycle_out[k], "norm") = k
    /\ \A j \in DOMAIN api_st.cycle_out[k] :
         api_st.cycle_out[k][j] = "norm" => api_st.cycle_out[k][j - 1] = "lic"

\* C18: in a run of compute_lic_with_postprocessing the high-pass filter is
\* applied only when use_filter is set, only after all passes of a cycle (the
\* k-th application comes after exactly k * num_lic_passes passes and before
\* any pass of cycle k+1), num_postprocess_cycles times in a run that returns;
\* rescaled_equalize is applied only when use_equalize is set, exactly once, as
\* the last operation, after all passes and filters of the last cycle.
C18_FilterPerCycleEqualizeOnce ==
  api.entry = "compute_lic_with_postprocessing" =>
    /\ \A i \in DOMAIN api_st.log :
         /\ api_st.log[i] = "filter" =>
              /\ api.use_filter
              /\ CountBefore(api_st.log, "lic", i)
                   = (CountBefore(api_st.log, "filter", i) + 1) * api.num_lic_passes
         /\ (api_st.log[i] = "lic" /\ api.use_filter) =>
              CountBefore(api_st.log, "filter", i)
                = CountBefore(api_st.log, "lic", i) \div api.num_lic_passes
         /\ api_st.log[i] = "equalize" =>
              /\ api.use_equalize
              /\ i = Len(api_st.log)
              /\ api_st.pc = "returned"
              /\ CountBefore(api_st.log, "lic", i)
                   = api.num_lic_passes * api.num_postprocess_cycles
    /\ api_st.pc = "returned" =>
         /\ Count(api_st.log, "filter")
              = (IF api.use_filter THEN api.num_postprocess_cycles ELSE 0)
         /\ Count(api_st.log, "equalize") = (IF api.use_equalize THEN 1 ELSE 0)

C18_Witness ==
  /\ api_st.pc = "returned" /\ api.backend = "python"
  /\ api.use_filter /\ api.use_equalize
  /\ api.num_lic_passes = 2 /\ api.num_postprocess_cycles = 2
  /\ Count(api_st.log, "lic") = 4
  /\ Count(api_st.log, "filter") = 2
  /\ api_st.log[Len(api_st.log)] = "equalize"

\* C19: no step of a pass changes the vector field or the input scalar field
\* of the caller; once the driver has copied them, both shared buffers hold
\* these values for the rest of the pass (no worker and no driver step writes
\* to them); and a worker that finishes changes only the state and the result
\* of its own chunk, not sfield_out nor the result of another chunk.
C19_InputsReadOnly ==
  [][/\ vfield' = vfield
     /\ sfield_in' = sfield_in
     /\ shm_vfield'.state # "none" => shm_vfield'.arr = vfield
     /\ shm_sfield'.state # "none" => shm_sfield'.arr = sfield_in
     /\ \A k \in DOMAIN chunks :
          (chunks[k] = "running" /\ chunks'[k] # "running") =>
            /\ sfield_out' = sfield_out
            /\ \A j \in DOMAIN chunks : j # k => chunk_out'[j] = chunk_out[j]]_vars

C19_Witness ==
  /\ use_parallel /\ cpu_count = 2 /\ lic_pc = "returned"
  /\ num_rows = 2 /\ num_cols = 2 /\ streamlength >= 2
  /\ shm_vfield.state = "unlinked" /\ shm_vfield.arr = vfield
  /\ shm_sfield.state = "unlinked" /\ shm_sfield.arr = sfield_in
  /\ sfield_out # ZeroField(num_rows, num_cols)
  /\ sfield_out # sfield_in

\* C15: when both calls were made with the same arguments and a seed, the
\* second call generates the same seed scalar field and returns the same
\* output as the first, whatever the state of the generator was before each
\* call.
C15_SameSeedSameOutput ==
  (seed_run.pc = "done" /\ seed_run.args.seed_sfield # NoSeed) =>
    /\ seed_run.texture[1] = seed_run.texture[2]
    /\ seed_run.out[1] = seed_run.out[2]

C15_Witness ==
  /\ seed_run.pc = "done" /\ seed_run.args.seed_sfield = 42
  /\ seed_run.args.cells = 2
  /\ seed_run.before[1] # seed_run.before[2]
  /\ seed_run.before[1] # rng_seed(42)
  /\ seed_run.out[1] = seed_run.out[2]

\* every object the caller's dict_a and dict_b reached before the call
InputObjects == Reachable(md.heap0, {md.dict_a, md.dict_b})

\* C20: merge_dicts never modifies its inputs and its result shares no mutable
\* state with them: after the call, and after any list, set or dict reachable
\* from the result is mutated in place, every object reachable from dict_a and
\* dict_b is what it was before the call.
C20_MergeSharesNothing ==
  md.pc \in {"merged", "mutated"} =>
    \A x \in InputObjects : heap[x] = md.heap0[x]

\* the part of C20 that the call itself satisfies: right after merge_dicts
\* returns, before the caller touches the result, the inputs are unchanged
C20_CallLeavesInputs ==
  md.pc = "merged" => \A x \in InputObjects : heap[x] = md.heap0[x]

\* the streamline ended early: zero sampled vector, or left the open domain
EndedEarly == sl.pc = "returned" /\ sl.exit \in {"zero", "left"}

\* an iteration that added a contribution: it read sfield_in at the integer
\* cell of the position before the advance, weighted by the taper of its step,
\* and the advanced position passed the boundary policy
ContributionOfStep ==
  /\ sl'.step = sl.step + 1
  /\ sl'.sidx = <<FloorInt(sl.row_float), FloorInt(sl.col_float)>>
  /\ sl'.weighted_sum =
       Add(sl.weighted_sum,
           Mul(taper_pixel_contribution(streamlength, sl.step),
               sfield_in[FloorInt(sl.row_float)][FloorInt(sl.col_float)]))
  /\ sl'.total_weight =
       Add(sl.total_weight, taper_pixel_contribution(streamlength, sl.step))
  /\ use_periodic_BCs \/ InsideGrid(sl'.row_float, sl'.col_float)

\* an iteration that ended the streamline added nothing
NoContributionOfStep ==
  /\ sl'.step = sl.step
  /\ sl'.weighted_sum = sl.weighted_sum
  /\ sl'.total_weight = sl.total_weight

\* C25: the contribution of step k of advect_streamline reads the input scalar
\* field at the integer cell occupied before the advance of step k and is added
\* only after that advance passed the boundary policy; a streamline that ends
\* at step k (zero sampled vector, or leaving the open domain) returns exactly
\* the contributions of the steps 0 .. k-1 and nothing for step k, and (0, 0)
\* when k = 0.
C25_ContributionBeforeAdvance ==
  /\ [][ (sl.pc = "loop" /\ sl' # sl) =>
           \/ sl'.pc = "raised"
           \/ sl'.pc = "returned" /\ sl'.exit \in {"zero", "left"} /\ NoContributionOfStep
           \/ sl'.pc \in {"loop", "returned"} /\ sl'.exit \in {"none", "exhausted"}
                /\ ContributionOfStep ]_vars
  /\ [](EndedEarly =>
          /\ sl.step < streamlength
          /\ sl.total_weight = TaperSum(streamlength, 0, sl.step)
          /\ sl.step = 0 => (sl.weighted_sum = Zero /\ sl.total_weight = Zero))

C25_Witness ==
  /\ EndedEarly /\ sl.step = 2 /\ streamlength = 3
  /\ sl.total_weight = Fin(7, 4)
  /\ sl.weighted_sum # sl.total_weight

\* the iteration about to run samples a vector that the zero test of line 88
\* does not stop
StepWithNonZeroSample ==
  /\ sl.pc = "loop" /\ IsFin(sl.row_float) /\ IsFin(sl.col_float)
  /\ SampledHere.ok
  /\ ~(IsZero(SampledHere.comp_row) /\ IsZero(SampledHere.comp_col))

\* the velocity, the time step and the advance of the iteration about to run
StepCompCol == Mul(SampledHere.comp_col, IntVal(dir_sgn))
StepCompRow == Mul(SampledHere.comp_row, IntVal(dir_sgn))
StepDeltaCol == delta_time(sl.col_float, StepCompCol)
StepDeltaRow == delta_time(sl.row_float, StepCompRow)
StepTime == Min(StepDeltaCol, StepDeltaRow)
StepRowChange == Mul(StepCompRow, StepTime)
StepColChange == Mul(StepCompCol, StepTime)

\* -1 <= x <= 1
WithinOneCell(x) == LessEq(IntVal(-1), x) /\ LessEq(x, IntVal(1))
\* x is a whole number
OnCellBoundary(x) == IsFin(x) /\ x[3] = 1

\* the time step is positive and finite, neither coordinate moves by more than
\* one cell, and the axis that attains the minimum lands on a cell boundary
StepStaysInNeighbourhood ==
  /\ Less(Zero, StepTime) /\ IsFin(StepTime)
  /\ WithinOneCell(StepRowChange) /\ WithinOneCell(StepColChange)
  /\ StepTime = StepDeltaRow => OnCellBoundary(Add(sl.row_float, StepRowChange))
  /\ StepTime = StepDeltaCol => OnCellBoundary(Add(sl.col_float, StepColChange))
  /\ StepTime = StepDeltaRow \/ StepTime = StepDeltaCol

\* C26: in every step of advect_streamline with a non-zero sampled vector the
\* time step is strictly positive and finite and the position changes by at
\* most one grid cell along each axis (before wrapping), reaching the next
\* integer cell boundary on the axis that attains the minimum.
C26_StepWithinOneCell ==
  StepWithNonZeroSample => StepStaysInNeighbourhood

\* the same statement for the steps whose sampled vector is finite
C26_FiniteSampleStepWithinOneCell ==
  (StepWithNonZeroSample /\ IsFin(SampledHere.comp_row) /\ IsFin(SampledHere.comp_col))
    => StepStaysInNeighbourhood

\* the number of loop iterations a finished advect_streamline call ran: one
\* per contribution, plus the iteration that ended it early or raised
Iterations(s) == IF s.exit = "exhausted" THEN s.step ELSE s.step + 1

\* the iterations of the 2 * num_cols streamlines of the row task of row r,
\* from column c on
RECURSIVE RowIterations(_, _)
RowIterations(r, c) ==
  IF c >= num_cols THEN 0
  ELSE Iterations(Streamline(r, c, 1)) + Iterations(Streamline(r, c, -1))
         + RowIterations(r, c + 1)

\* every weight of a streamline of length L lies in [0, 1], the first is 1
WeightsInUnitInterval(L) ==
  \A k \in 0 .. L - 1 :
    /\ LessEq(Zero, taper_pixel_contribution(L, k))
    /\ LessEq(taper_pixel_contribution(L, k), IntVal(1))
    /\ k = 0 => taper_pixel_contribution(L, k) = IntVal(1)

StreamlineBounded(s) ==
  /\ s.pc \in {"returned", "raised"}
  /\ Iterations(s) <= streamlength
  /\ s.step <= streamlength
  /\ LessEq(Zero, s.total_weight) /\ LessEq(s.total_weight, IntVal(streamlength))

\* the number of chunks of the pool in the given state
ChunksIn(st) == Cardinality({k \in DOMAIN chunks : chunks[k] = st})

\* an upper bound of the number of steps a pass has left
PassRank ==
  CASE lic_pc = "serial_loop"  -> num_rows * num_cols - (row_index * num_cols + col_index)
    [] lic_pc = "par_start"    -> 2 * NumChunks(num_rows, cpu_count) + num_rows + 5
    [] lic_pc = "par_try"      -> 2 * NumChunks(num_rows, cpu_count) + num_rows + 4
    [] lic_pc = "par_wait"     -> 2 * ChunksIn("queued") + ChunksIn("running") + num_rows + 3
    [] lic_pc = "par_assemble" -> Len(results) - res_pos + 3
    [] lic_pc = "par_finally"  -> 1
    [] OTHER                   -> 0

\* some step of the pass can be taken: the guard of one of its actions holds
PassCanStep ==
  \/ lic_pc \in {"serial_loop", "par_start", "par_try", "par_assemble", "par_finally"}
  \/ /\ lic_pc = "par_wait"
     /\ \/ ChunksIn("queued") > 0 /\ ChunksIn("running") < cpu_count
        \/ ChunksIn("running") > 0
        \/ \A k \in DOMAIN chunks : chunks[k] \in {"done", "failed"}

\* C27: every advect_streamline call ends after at most streamlength
\* iterations and accumulates at most streamlength contributions, each with a
\* weight in [0, 1] (1 at step 0), so 0 <= total_weight <= streamlength; every
\* row task runs at most 2 * num_cols * streamlength iterations and every pass
\* ends, whatever the vector field: a pass that has not ended can take a step,
\* and every step lowers a non-negative bound of the steps left.
C27_BoundedWorkAndTermination ==
  /\ [](PassDone =>
          /\ WeightsInUnitInterval(streamlength)
          /\ \A p \in Pixels : \A d \in {1, -1} : StreamlineBounded(Streamline(p[1], p[2], d))
          /\ \A r \in Rows(num_rows) : RowIterations(r, 0) <= 2 * num_cols * streamlength)
  /\ [](PassRank >= 0 /\ (~PassDone => PassCanStep))
  /\ [][PassRank' < PassRank]_vars

C27_Witness ==
  /\ lic_pc = "returned" /\ use_parallel
  /\ num_rows = 2 /\ num_cols = 2 /\ streamlength = 3 /\ use_periodic_BCs
  /\ RowIterations(0, 0) = 2 * num_cols * streamlength
  /\ Less(IntVal(1), Streamline(0, 0, 1).total_weight)

\* both segments of the driver have been closed and unlinked
SegmentsReleased == shm_vfield.state = "unlinked" /\ shm_sfield.state = "unlinked"

\* a step that closes and unlinks a segment
ReleasesSegment ==
  \/ shm_vfield'.state = "unlinked" /\ shm_vfield.state # "unlinked"
  \/ shm_sfield'.state = "unlinked" /\ shm_sfield.state # "unlinked"

\* C28: on every exit path of _parallel.compute_lic -- normal return, or an
\* exception raised while creating the pool, running the row tasks or
\* assembling the rows -- both shared-memory segments created by the driver
\* have been closed and unlinked by the driver before control returns to the
\* caller; no worker unlinks a segment, and the segments stay until the finally
\* block.
C28_SegmentsReleasedOnEveryExit ==
  /\ []((use_parallel /\ PassDone) => SegmentsReleased)
  /\ []((use_parallel /\ lic_pc \in {"par_try", "par_wait", "par_assemble", "par_finally"})
          => (shm_vfield.state = "live" /\ shm_sfield.state = "live"))
  /\ [][ReleasesSegment => (lic_pc = "par_finally" /\ PassDone' /\ SegmentsReleased')]_vars

C28_Witness ==
  /\ use_parallel /\ lic_pc = "raised" /\ lic_err = "ValueError"
  /\ Len(results) = 2 /\ res_pos = 2 /\ writes[results[1][1]] = 1
  /\ SegmentsReleased

\* the value stored under key in the dict obj
ValueAt(obj, key) == obj.vals[KeyIndex(obj, key)]
KeySet(obj) == { obj.keys[i] : i \in DOMAIN obj.keys }

\* the value c1 of the store h1 and the value c2 of the store h2 are equal as
\* Python values: same scalars, lists equal element by element, dicts with the
\* same keys and equal values whatever the order of the keys
RECURSIVE SameValue(_, _, _, _)
SameValue(h1, c1, h2, c2) ==
  IF c1[1] # "ref" \/ c2[1] # "ref" THEN c1 = c2
  ELSE /\ h1[c1[2]].kind = h2[c2[2]].kind
       /\ IF h1[c1[2]].kind = "dict"
          THEN /\ KeySet(h1[c1[2]]) = KeySet(h2[c2[2]])
               /\ \A k \in KeySet(h1[c1[2]]) :
                    SameValue(h1, ValueAt(h1[c1[2]], k), h2, ValueAt(h2[c2[2]], k))
          ELSE /\ Len(h1[c1[2]].vals) = Len(h2[c2[2]].vals)
               /\ \A i \in DOMAIN h1[c1[2]].vals :
                    SameValue(h1, h1[c1[2]].vals[i], h2, h2[c2[2]].vals[i])

\* the list at r holds the elements of the list at p followed by those of the list at i
IsConcatenation(hp, p, hi, i, hr, r) ==
  /\ Len(hr[r].vals) = Len(hp[p].vals) + Len(hi[i].vals)
  /\ \A n \in DOMAIN hp[p].vals : SameValue(hp, hp[p].vals[n], hr, hr[r].vals[n])
  /\ \A n \in DOMAIN hi[i].vals :
       SameValue(hi, hi[i].vals[n], hr, hr[r].vals[Len(hp[p].vals) + n])

\* the dict at r is the dict at p (previous content) merged with the dict at i
\* (input): nested dicts merged recursively, lists concatenated, otherwise the
\* value of the input replaces the previous one
RECURSIVE IsMergeOf(_, _, _, _, _, _)
IsMergeOf(hp, p, hi, i, hr, r) ==
  /\ hr[r].kind = "dict"
  /\ KeySet(hr[r]) = KeySet(hp[p]) \cup KeySet(hi[i])
  /\ \A k \in KeySet(hr[r]) :
       IF k \in KeySet(hp[p]) /\ k \in KeySet(hi[i])
       THEN IF KindOf(hp, ValueAt(hp[p], k)) = "dict" /\ KindOf(hi, ValueAt(hi[i], k)) = "dict"
            THEN /\ KindOf(hr, ValueAt(hr[r], k)) = "dict"
                 /\ IsMergeOf(hp, ValueAt(hp[p], k)[2], hi, ValueAt(hi[i], k)[2],
                              hr, ValueAt(hr[r], k)[2])
            ELSE IF KindOf(hp, ValueAt(hp[p], k)) = "list" /\ KindOf(hi, ValueAt(hi[i], k)) = "list"
            THEN /\ KindOf(hr, ValueAt(hr[r], k)) = "list"
                 /\ IsConcatenation(hp, ValueAt(hp[p], k)[2], hi, ValueAt(hi[i], k)[2],
                                    hr, ValueAt(hr[r], k)[2])
            ELSE SameValue(hi, ValueAt(hi[i], k), hr, ValueAt(hr[r], k))
       ELSE IF k \in KeySet(hp[p])
       THEN SameValue(hp, ValueAt(hp[p], k), hr, ValueAt(hr[r], k))
       ELSE SameValue(hi, ValueAt(hi[i], k), hr, ValueAt(hr[r], k))

\* the content of the file is what the last save_dict_to_json_file call had to leave
JsonContentAfterSave ==
  /\ json_file.exists
  /\ IF json_op.prev.exists /\ ~json_op.overwrite
     THEN IsMergeOf(json_op.prev.content.heap, json_op.prev.content.cell[2],
                    json_op.input.heap, json_op.input.addr,
                    json_file.content.heap, json_file.content.cell[2])
     ELSE SameValue(json_op.input.heap, <<"ref", json_op.input.addr>>,
                    json_file.content.heap, json_file.content.cell)

\* C21: after each save_dict_to_json_file call on one path the file holds
\* exactly input_dict when the file did not exist or overwrite = True, and
\* merge_dicts(previous content, input_dict) when it existed and overwrite =
\* False (nested dicts merged recursively, lists concatenated, otherwise the new
\* value replaces the old one); a following read_json_file_into_dict returns
\* that content.
C21_JsonFileHoldsMergedContent ==
  /\ json_op.last = "save" => JsonContentAfterSave
  /\ (json_op.last = "read" /\ json_op.calls > 0) =>
       /\ json_op.err = "none"
       /\ JsonContentAfterSave
       /\ SameValue(json_op.result.heap, json_op.result.cell,
                    json_file.content.heap, json_file.content.cell)

C21_Witness ==
  /\ json_op.last = "read" /\ json_op.calls = 3 /\ ~json_op.overwrite
  /\ json_op.prev.exists
  /\ HasKey(json_op.result.heap[json_op.result.cell[2]], "a")
  /\ HasKey(json_op.input.heap[json_op.input.addr], "a")
  /\ KindOf(json_op.result.heap, ValueAt(json_op.result.heap[json_op.result.cell[2]], "a")) = "dict"
  /\ KeySet(json_op.result.heap[ValueAt(json_op.result.heap[json_op.result.cell[2]], "a")[2]])
       = {"x", "y"}
  /\ KeySet(json_op.input.heap[json_op.input.addr]) = {"a", "b"}
  /\ KindOf(json_op.input.heap, ValueAt(json_op.input.heap[json_op.input.addr], "a")) = "dict"

\* the columns of the file: column i holds field i of every row
FileColumnLengths(file) ==
  { Cardinality({ r \in DOMAIN file.rows : i \in DOMAIN file.rows[r] }) :
      i \in DOMAIN file.header }

\* every row of the file has one field per column of the header
Rectangular(file) ==
  /\ \A r \in DOMAIN file.rows : Len(file.rows[r]) = Len(file.header)
  /\ Cardinality(FileColumnLengths(file)) <= 1

\* the last call was made with usable arguments: a .csv path, string keys,
\* lists as values
CsvCallWellTyped ==
  /\ csv_op.path_ok /\ ~csv_op.input.bad_key
  /\ \A i \in DOMAIN csv_op.input.dataset.cols : csv_op.input.dataset.cols[i].sized

\* the number of rows the last call supplies for the key
SuppliedLength(key) ==
  Len(csv_op.input.dataset.cols[ColumnIndex(csv_op.input.dataset, key)].items)
SuppliedKeys == { csv_op.input.dataset.keys[i] : i \in DOMAIN csv_op.input.dataset.keys }
StoredKeys == { csv_op.prev.header[i] : i \in DOMAIN csv_op.prev.header }

\* the length every column would have after the last call: a set with more
\* than one element when the columns would differ, empty without any column
ResultingLengths ==
  IF csv_op.prev.exists /\ ~csv_op.overwrite
  THEN { Len(csv_op.prev.rows) + (IF k \in SuppliedKeys THEN SuppliedLength(k) ELSE 0) :
           k \in StoredKeys }
       \cup { SuppliedLength(k) : k \in SuppliedKeys \ StoredKeys }
  ELSE { SuppliedLength(k) : k \in SuppliedKeys }

\* the column stored under the key in the file
StoredColumn(file, key) ==
  [ r \in 1 .. Len(file.rows) |->
      file.rows[r][CHOOSE i \in DOMAIN file.header : file.header[i] = key] ]

\* C22: after any sequence of save_dict_to_csv_file calls on one path all
\* columns stored in the file have the same length: a call whose result would
\* have columns of unequal length (unequal columns of a new or overwriting
\* dict, existing columns extended by different amounts, an existing column
\* left out while others grow, a new column whose length is not existing rows
\* plus growth) raises ValueError and writes nothing; a call whose result has
\* columns of one length stores every column in full.
C22_CsvColumnsSameLength ==
  /\ Rectangular(csv_file)
  /\ (csv_op.last = "read" /\ csv_op.err = "none") =>
       /\ Cardinality(ColumnLengths(csv_op.result)) = 1
       /\ csv_op.result.keys = csv_file.header
  /\ (csv_op.last = "save" /\ CsvCallWellTyped) =>
       IF Cardinality(ResultingLengths) # 1
       THEN csv_op.err = "ValueError" /\ csv_file = csv_op.prev
       ELSE /\ csv_op.err = "none"
            /\ csv_file.exists
            /\ \A n \in ResultingLengths : Len(csv_file.rows) = n
            /\ \A k \in SuppliedKeys :
                 /\ KeyIn(k, csv_file.header)
                 /\ \A j \in 1 .. SuppliedLength(k) :
                      StoredColumn(csv_file, k)[Len(csv_file.rows) - SuppliedLength(k) + j]
                        = csv_op.input.dataset.cols[ColumnIndex(csv_op.input.dataset, k)].items[j]

C22_Witness ==
  /\ csv_op.calls = 3 /\ csv_op.err = "ValueError" /\ CsvCallWellTyped
  /\ csv_op.prev.exists /\ ~csv_op.overwrite
  /\ StoredKeys = {"a", "b"} /\ SuppliedKeys = {"a"} /\ SuppliedLength("a") = 1
  /\ Len(csv_file.rows) = 2

\* C29: whenever save_dict_to_csv_file raises (wrong file extension, key that
\* is not a string, value without a length, unequal column lengths,
\* inconsistent append lengths, wrong new-column length) the file at the path
\* is exactly what it was before the call: an existing file keeps its content
\* and a missing file is not created.
C29_CsvUnchangedOnError ==
  (csv_op.last = "save" /\ csv_op.err # "none") => csv_file = csv_op.prev

C29_Witness ==
  /\ csv_op.last = "save" /\ csv_op.err = "ValueError" /\ csv_op.path_ok
  /\ csv_op.overwrite /\ csv_op.prev.exists /\ Len(csv_op.prev.rows) = 2
  /\ csv_op.prev.header = <<"a", "b">>
  /\ Cardinality(ResultingLengths) = 2

\* the axis dicts get_local_dataset reports for a dataset
ReportedAxes(d) == get_local_dataset(h5, d).list_axis_dicts

\* C23: when update_global_axis_metadata(axis_group, axis_name, units, notes)
\* has returned after any sequence of adds, get_local_dataset of every stored
\* dataset that uses the axis reports the updated units and notes for that
\* axis, also for a dataset added after another dataset had created the
\* global axis.
C23_LocalAxesReportGlobalMetadata ==
  (h5_op.last = "update_global_axis_metadata" /\ h5_op.err = "none") =>
    \A d \in DatasetNames : \A k \in 1..Len(ReportedAxes(d)) :
      ReportedAxes(d)[k].name = h5_op.axis_name =>
        /\ (h5_op.units # None => ReportedAxes(d)[k].units = h5_op.units)
        /\ (h5_op.notes # None => ReportedAxes(d)[k].notes = h5_op.notes)

StrictlyIncreasing(s) == \A i \in 1..(Len(s) - 1) : s[i] < s[i + 1]

LocalAxes(d) == h5.dict_datasets[d].list_axis_objs

\* C24: after any sequence of adds, every value of every local axis of every
\* stored dataset is a value of the global axis of the same name, and the
\* values of every global axis are strictly increasing.
C24_GlobalAxisHoldsLocalValues ==
  /\ \A d \in DatasetNames : \A k \in 1..Len(LocalAxes(d)) :
       /\ h5.dict_global_axes[LocalAxes(d)[k].name].exists
       /\ Elements(LocalAxes(d)[k].values)
            \subseteq Elements(h5.dict_global_axes[LocalAxes(d)[k].name].values)
  /\ \A n \in AxisNames : StrictlyIncreasing(h5.dict_global_axes[n].values)

NamesOf(axes) == [k \in 1..Len(axes) |-> axes[k].name]

\* the last call was an add that returned although the names of its axes were
\* not the names of the local axes of the dataset, in order
AddNamedOtherAxes ==
  /\ h5_op.last = "add" /\ h5_op.err = "none"
  /\ NamesOf(h5_op.list_axis_dicts) # NamesOf(LocalAxes(h5_op.dataset_name))

\* every call other than an add that names other axes keeps the global axes
\* supersets of the local axes
C24_SupersetKeptWhenAxesNamedInOrder ==
  [][(C24_GlobalAxisHoldsLocalValues /\ ~AddNamedOtherAxes')
       => C24_GlobalAxisHoldsLocalValues']_vars

\* the axis values of the entry at offset n of the stored values of d
AxisValuesAt(d, n) ==
  [k \in 1..Len(LocalAxes(d)) |->
     LocalAxes(d)[k].values[Unravel(n - 1, h5.dict_datasets[d].values.shape)[k] + 1]]

\* C30: the stored values of every dataset have one dimension per local axis,
\* as long as the axis has values; an entry whose axis values no add supplied
\* is NaN and every other entry is the value of the last add that supplied
\* its axis values.
C30_ValuesMatchLocalAxes ==
  \A d \in DatasetNames : h5.dict_datasets[d].exists =>
    /\ Len(h5.dict_datasets[d].values.shape) = Len(LocalAxes(d))
    /\ \A k \in 1..Len(LocalAxes(d)) :
         h5.dict_datasets[d].values.shape[k] = Len(LocalAxes(d)[k].values)
    /\ Len(h5.dict_datasets[d].values.data) = Size(h5.dict_datasets[d].values.shape)
    /\ \A n \in 1..Len(h5.dict_datasets[d].values.data) :
         IF \E p \in h5_op.supplied[d] : p[1] = AxisValuesAt(d, n)
         THEN <<AxisValuesAt(d, n), h5.dict_datasets[d].values.data[n]>>
                \in h5_op.supplied[d]
         ELSE h5.dict_datasets[d].values.data[n] = nan

\* a dataset enlarged by a second add: it holds a NaN, a value of the
\* first add and a value of the second
C30_Witness ==
  \E d \in DatasetNames :
    /\ h5_op.last = "add" /\ h5_op.err = "none" /\ h5_op.dataset_name = d
    /\ h5_op.adds = 2
    /\ nan \in Elements(h5.dict_datasets[d].values.data)
    /\ \E v \in Elements(h5.dict_datasets[d].values.data) : v >= 10 /\ v < 20
    /\ \E v \in Elements(h5.dict_datasets[d].values.data) : v >= 20

====
